---- MODULE Spec2Model ----
(***************************************************************************)
(* datadotenv: the dotenv parser (_Parse._iter_vars_from_dotenv_chars) and *)
(* the schema resolver (_Spec.from_chars_iter).                            *)
(*                                                                         *)
(* A character is its Unicode code point, so that the source's range tests *)
(* ("A" <= char <= "Z") read the same here.  A string is a sequence of     *)
(* code points.  A Var's value is None or Str(s).                          *)
(***************************************************************************)
EXTENDS Integers, Sequences, FiniteSets, TLC

\* ------------------------------------------------------------------------
\* Bounds of the model.

\* longest input (in characters) the parser is fed
MaxLen == 6

\* ------------------------------------------------------------------------
\* Characters named in the source.

BEL == 7
BS == 8
TAB == 9
LF == 10
VT == 11
FF == 12
CR == 13
SP == 32
DQUOTE == 34
HASH == 35
SQUOTE == 39
DOT == 46
DIGIT_0 == 48
DIGIT_9 == 57
EQUALS == 61
UPPER_A == 65
UPPER_Z == 90
BACKSLASH == 92
UNDERSCORE == 95
LOWER_A == 97
LOWER_B == 98
LOWER_F == 102
LOWER_N == 110
LOWER_R == 114
LOWER_T == 116
LOWER_V == 118
LOWER_Z == 122

\* the characters the model feeds to the parser:
\* A n 1 _ = space TAB VT LF FF " ' \ #
Alphabet == {65, 110, 49, 95, 61, 32, 9, 11, 10, 12, 34, 39, 92, 35}

\* the characters the model feeds right after a backslash inside quotes:
\* the alphabet and the remaining letters of the escape table, t r v f b a
EscapeAlphabet == Alphabet \cup {116, 114, 118, 102, 98, 97}

\* ------------------------------------------------------------------------
\* Var: a name and a value that is a string or None.

None == [isset |-> FALSE]
Str(s) == [isset |-> TRUE, str |-> s]
Var(name, value) == [name |-> name, value |-> value]

\* ------------------------------------------------------------------------
\* The parser's state register.

_DOTENV_STATE_BEFORE_NAME == 0
_DOTENV_STATE_IN_UNQUOTED_NAME == 1
_DOTENV_STATE_IN_QUOTED_NAME == 2
_DOTENV_STATE_AFTER_NAME == 3
_DOTENV_STATE_BEFORE_VAL == 4
_DOTENV_STATE_IN_UNQUOTED_VAL == 5
_DOTENV_STATE_IN_DOUBLE_QUOTED_VAL == 6
_DOTENV_STATE_IN_SINGLE_QUOTED_VAL == 7
_DOTENV_STATE_AFTER_VAL == 8
_DOTENV_STATE_IN_COMMENT == 9

\* ------------------------------------------------------------------------
\* Character tests of the parser.

\* char == "\n" or char == "\r" or char == "\f"
IsLineBreak(char) == char = LF \/ char = CR \/ char = FF

\* char == " " or char == "\t" or char == "\v"
IsBlank(char) == char = SP \/ char = TAB \/ char = VT

\* "A" <= char <= "Z" or "a" <= char <= "z"
IsLetter(char) ==
    \/ (UPPER_A <= char /\ char <= UPPER_Z)
    \/ (LOWER_A <= char /\ char <= LOWER_Z)

\* a variant of IsNameChar without the digits
IsNameChar_NoDigit(char) ==
    \/ char = UNDERSCORE
    \/ (UPPER_A <= char /\ char <= UPPER_Z)
    \/ (LOWER_A <= char /\ char <= LOWER_Z)

\* char == "_" or "A" <= char <= "Z" or "0" <= char <= "9" or "a" <= char <= "z"
IsNameChar(char) ==
    \/ char = UNDERSCORE
    \/ (UPPER_A <= char /\ char <= UPPER_Z)
    \/ (DIGIT_0 <= char /\ char <= DIGIT_9)
    \/ (LOWER_A <= char /\ char <= LOWER_Z)

\* a variant of the double-quoted table that keeps the letter of \n and
\* accepts nothing else but the quote and the backslash
DoubleQuotedEscape_KeepsLetter(escaped_char) ==
    IF escaped_char = DQUOTE THEN <<DQUOTE>>
    ELSE IF escaped_char = LOWER_N THEN <<LOWER_N>>
    ELSE IF escaped_char = BACKSLASH THEN <<BACKSLASH>>
    ELSE <<>>

\* the escape table of a double-quoted value: the character appended for
\* escaped_char, or <<>> when the escape is invalid
DoubleQuotedEscape(escaped_char) ==
    IF escaped_char = DQUOTE THEN <<DQUOTE>>
    ELSE IF escaped_char = LOWER_N THEN <<LF>>
    ELSE IF escaped_char = BACKSLASH THEN <<BACKSLASH>>
    ELSE IF escaped_char = LOWER_T THEN <<TAB>>
    ELSE IF escaped_char = SQUOTE THEN <<SQUOTE>>
    ELSE IF escaped_char = LOWER_R THEN <<CR>>
    ELSE IF escaped_char = LOWER_V THEN <<VT>>
    ELSE IF escaped_char = LOWER_F THEN <<FF>>
    ELSE IF escaped_char = LOWER_B THEN <<BS>>
    ELSE IF escaped_char = LOWER_A THEN <<BEL>>
    ELSE <<>>

\* the escape table of a single-quoted value and of a quoted name
SingleQuotedEscape(escaped_char) ==
    IF escaped_char = SQUOTE THEN <<SQUOTE>>
    ELSE IF escaped_char = BACKSLASH THEN <<BACKSLASH>>
    ELSE <<>>

\* ------------------------------------------------------------------------
\* State of one run of the generator _iter_vars_from_dotenv_chars.

VARIABLES
    chars,       \* the characters taken from the iterator so far
    state,       \* the state register
    name_chars,  \* the name accumulator
    val_chars,   \* the value accumulator
    vars,        \* the Vars yielded so far
    result,      \* "running", "returned", "CannotParse" or "RuntimeError"
    pc           \* where the generator stands: "loop" (it takes its next
                 \* character at the top of the while loop), "escape" (it
                 \* takes it at the next(chars) that follows a backslash
                 \* inside quotes), "yield" (it is suspended at a yield
                 \* inside the loop) or "last yield" (it is suspended at a
                 \* yield after the loop)

parse_vars == <<chars, state, name_chars, val_chars, vars, result, pc>>

\* State of one call of _Spec.from_chars_iter.

VARIABLES
    var_specs,         \* _Spec._var_specs: the list of _VarSpec
    allow_incomplete,  \* _Spec._allow_incomplete
    _resolved,         \* _VarSpecResolveGroup._resolved
    dataclass_kwargs,  \* field name -> converted value
    outcome,           \* [kind |-> "running"], the returned record or the error
    seen               \* the Vars the parser has yielded to this call

resolve_vars ==
    <<var_specs, allow_incomplete, _resolved, dataclass_kwargs, outcome, seen>>

\* State of the program around the calls: the builder calls made on the
\* _Spec, the calls of from_chars_iter that have ended, and a second call
\* that is in progress while the first one runs.

VARIABLES
    _custom_validators_and_converters_specs,
                \* _Spec._custom_validators_and_converters_specs
    builder,    \* the validate, convert and convert_type calls made on the
                \* _Spec, each with its arguments and what it raised
    retargets,  \* the retarget(old_name, new_name) calls made on the _Spec
    previous,   \* the calls that have ended: their input and their outcome
    other       \* the local variables of the call that is not running now

session_vars ==
    <<_custom_validators_and_converters_specs, builder, retargets, previous, other>>

\* State of one call of parse.timedelta.

VARIABLE
    td          \* the locals of the call: s, the number of characters taken
                \* from chars, char, tokens, token_chars, last_was_comma,
                \* the place in the code (pc) and the result

timedelta_vars == <<td>>

all_vars == <<parse_vars, resolve_vars, session_vars, timedelta_vars>>

ParseInit ==
    /\ chars = <<>>
    /\ state = _DOTENV_STATE_BEFORE_NAME
    /\ name_chars = <<>>
    /\ val_chars = <<>>
    /\ vars = <<>>
    /\ result = "running"
    /\ pc = "loop"

\* char = next(chars) at the top of the loop
Reads(char) ==
    /\ result = "running"
    /\ pc = "loop"
    /\ Len(chars) < MaxLen
    /\ char \in Alphabet
    /\ chars' = Append(chars, char)
    /\ UNCHANGED <<resolve_vars, session_vars, timedelta_vars>>

\* raise error.CannotParse(...)
RaiseCannotParse ==
    /\ result' = "CannotParse"
    /\ UNCHANGED <<state, name_chars, val_chars, vars>>

\* a variant of Yield that yields an empty string as None
Yield_EmptyAsNone(var) ==
    /\ vars' = Append(vars, IF var.value = Str(<<>>) THEN Var(var.name, None) ELSE var)
    /\ pc' = "yield"
    /\ UNCHANGED <<state, name_chars, val_chars, result>>

\* yield Var(...) inside the loop: the Var goes to the consumer and the
\* generator is suspended with its locals as they are
Yield(var) ==
    /\ vars' = Append(vars, var)
    /\ pc' = "yield"
    /\ UNCHANGED <<state, name_chars, val_chars, result>>

\* a variant of Resume that never clears the value accumulator
Resume_KeepsValue ==
    /\ result = "running"
    /\ pc \in {"yield", "last yield"}
    /\ UNCHANGED <<chars, vars>>
    /\ UNCHANGED <<resolve_vars, session_vars, timedelta_vars>>
    /\ IF pc = "last yield"
       THEN /\ result' = "returned"
            /\ UNCHANGED <<state, name_chars, val_chars, pc>>
       ELSE /\ name_chars' = <<>>
            /\ val_chars' = val_chars
            /\ state' = IF chars[Len(chars)] = HASH
                        THEN _DOTENV_STATE_IN_COMMENT
                        ELSE _DOTENV_STATE_BEFORE_NAME
            /\ pc' = "loop"
            /\ UNCHANGED result

\* The consumer asks for the next Var and the generator goes on behind the
\* yield it is suspended at.  Inside the loop: name_chars.clear(),
\* val_chars.clear() where the branch has it (every yield but the two of
\* BeforeValue), and the change of state, to InComment where the character
\* read was "#" and to BeforeName where it was a line break.  After the
\* loop: the generator returns.
Resume ==
    /\ result = "running"
    /\ pc \in {"yield", "last yield"}
    /\ UNCHANGED <<chars, vars>>
    /\ UNCHANGED <<resolve_vars, session_vars, timedelta_vars>>
    /\ IF pc = "last yield"
       THEN /\ result' = "returned"
            /\ UNCHANGED <<state, name_chars, val_chars, pc>>
       ELSE /\ name_chars' = <<>>
            /\ val_chars' = IF state = _DOTENV_STATE_BEFORE_VAL THEN val_chars
                            ELSE <<>>
            /\ state' = IF chars[Len(chars)] = HASH
                        THEN _DOTENV_STATE_IN_COMMENT
                        ELSE _DOTENV_STATE_BEFORE_NAME
            /\ pc' = "loop"
            /\ UNCHANGED result

\* char == "\\" inside quotes: the generator goes on to escaped_char = next(chars)
ReadsBackslash(char) ==
    /\ Reads(char)
    /\ pc' = "escape"
    /\ UNCHANGED <<state, name_chars, val_chars, vars, result>>

\* escaped_char = next(chars) returned escaped_char: the character the
\* escape table gives is appended to the name or to the value accumulator
ReadsEscaped(escaped_char, appended, into_name) ==
    /\ result = "running"
    /\ pc = "escape"
    /\ Len(chars) < MaxLen
    /\ escaped_char \in EscapeAlphabet
    /\ chars' = Append(chars, escaped_char)
    /\ pc' = "loop"
    /\ UNCHANGED <<resolve_vars, session_vars, timedelta_vars>>
    /\ IF appended # <<>>
       THEN /\ IF into_name
               THEN /\ name_chars' = name_chars \o appended
                    /\ UNCHANGED val_chars
               ELSE /\ val_chars' = val_chars \o appended
                    /\ UNCHANGED name_chars
            /\ UNCHANGED <<state, vars, result>>
       ELSE RaiseCannotParse

BeforeName(char) ==
    /\ state = _DOTENV_STATE_BEFORE_NAME
    /\ Reads(char)
    /\ UNCHANGED pc
    /\ IF IsLineBreak(char) \/ IsBlank(char)
       THEN UNCHANGED <<state, name_chars, val_chars, vars, result>>
       ELSE IF char = HASH
       THEN /\ state' = _DOTENV_STATE_IN_COMMENT
            /\ UNCHANGED <<name_chars, val_chars, vars, result>>
       ELSE IF char = SQUOTE
       THEN /\ state' = _DOTENV_STATE_IN_QUOTED_NAME
            /\ UNCHANGED <<name_chars, val_chars, vars, result>>
       ELSE IF IsLetter(char)
       THEN /\ name_chars' = Append(name_chars, char)
            /\ state' = _DOTENV_STATE_IN_UNQUOTED_NAME
            /\ UNCHANGED <<val_chars, vars, result>>
       ELSE RaiseCannotParse

InUnquotedName(char) ==
    /\ state = _DOTENV_STATE_IN_UNQUOTED_NAME
    /\ Reads(char)
    /\ UNCHANGED pc
    /\ IF char = EQUALS
       THEN /\ state' = _DOTENV_STATE_BEFORE_VAL
            /\ UNCHANGED <<name_chars, val_chars, vars, result>>
       ELSE IF IsBlank(char)
       THEN /\ state' = _DOTENV_STATE_AFTER_NAME
            /\ UNCHANGED <<name_chars, val_chars, vars, result>>
       ELSE IF IsNameChar(char)
       THEN /\ name_chars' = Append(name_chars, char)
            /\ UNCHANGED <<state, val_chars, vars, result>>
       ELSE RaiseCannotParse

\* a variant of BeforeVal that yields None before a comment
BeforeVal_NoneBeforeComment(char) ==
    /\ state = _DOTENV_STATE_BEFORE_VAL
    /\ Reads(char)
    /\ IF IsLineBreak(char) \/ char = HASH
       THEN Yield(Var(name_chars, None))
       ELSE IF char = DQUOTE
       THEN /\ state' = _DOTENV_STATE_IN_DOUBLE_QUOTED_VAL
            /\ UNCHANGED <<name_chars, val_chars, vars, result, pc>>
       ELSE IF char = SQUOTE
       THEN /\ state' = _DOTENV_STATE_IN_SINGLE_QUOTED_VAL
            /\ UNCHANGED <<name_chars, val_chars, vars, result, pc>>
       ELSE IF ~IsBlank(char)
       THEN /\ val_chars' = Append(val_chars, char)
            /\ state' = _DOTENV_STATE_IN_UNQUOTED_VAL
            /\ UNCHANGED <<name_chars, vars, result, pc>>
       ELSE UNCHANGED <<state, name_chars, val_chars, vars, result, pc>>

BeforeVal(char) ==
    /\ state = _DOTENV_STATE_BEFORE_VAL
    /\ Reads(char)
    /\ IF IsLineBreak(char)
       THEN Yield(Var(name_chars, None))
       ELSE IF char = DQUOTE
       THEN /\ state' = _DOTENV_STATE_IN_DOUBLE_QUOTED_VAL
            /\ UNCHANGED <<name_chars, val_chars, vars, result, pc>>
       ELSE IF char = SQUOTE
       THEN /\ state' = _DOTENV_STATE_IN_SINGLE_QUOTED_VAL
            /\ UNCHANGED <<name_chars, val_chars, vars, result, pc>>
       ELSE IF char = HASH
       THEN Yield(Var(name_chars, Str(<<>>)))
       ELSE IF ~IsBlank(char)
       THEN /\ val_chars' = Append(val_chars, char)
            /\ state' = _DOTENV_STATE_IN_UNQUOTED_VAL
            /\ UNCHANGED <<name_chars, vars, result, pc>>
       ELSE UNCHANGED <<state, name_chars, val_chars, vars, result, pc>>

InUnquotedVal(char) ==
    /\ state = _DOTENV_STATE_IN_UNQUOTED_VAL
    /\ Reads(char)
    /\ IF IsLineBreak(char)
       THEN Yield(Var(name_chars, Str(val_chars)))
       ELSE IF IsBlank(char)
       THEN /\ state' = _DOTENV_STATE_AFTER_VAL
            /\ UNCHANGED <<name_chars, val_chars, vars, result, pc>>
       ELSE /\ val_chars' = Append(val_chars, char)
            /\ UNCHANGED <<state, name_chars, vars, result, pc>>

InDoubleQuotedVal(char) ==
    /\ state = _DOTENV_STATE_IN_DOUBLE_QUOTED_VAL
    /\ IF pc = "escape"
       THEN ReadsEscaped(char, DoubleQuotedEscape(char), FALSE)
       ELSE IF char = DQUOTE
       THEN /\ Reads(char)
            /\ UNCHANGED pc
            /\ state' = _DOTENV_STATE_AFTER_VAL
            /\ UNCHANGED <<name_chars, val_chars, vars, result>>
       ELSE IF char = BACKSLASH
       THEN ReadsBackslash(char)
       ELSE /\ Reads(char)
            /\ UNCHANGED pc
            /\ val_chars' = Append(val_chars, char)
            /\ UNCHANGED <<state, name_chars, vars, result>>

InSingleQuotedVal(char) ==
    /\ state = _DOTENV_STATE_IN_SINGLE_QUOTED_VAL
    /\ IF pc = "escape"
       THEN ReadsEscaped(char, SingleQuotedEscape(char), FALSE)
       ELSE IF char = SQUOTE
       THEN /\ Reads(char)
            /\ UNCHANGED pc
            /\ state' = _DOTENV_STATE_AFTER_VAL
            /\ UNCHANGED <<name_chars, val_chars, vars, result>>
       ELSE IF char = BACKSLASH
       THEN ReadsBackslash(char)
       ELSE /\ Reads(char)
            /\ UNCHANGED pc
            /\ val_chars' = Append(val_chars, char)
            /\ UNCHANGED <<state, name_chars, vars, result>>

AfterVal(char) ==
    /\ state = _DOTENV_STATE_AFTER_VAL
    /\ Reads(char)
    /\ IF IsLineBreak(char) \/ char = HASH
       THEN Yield(Var(name_chars, Str(val_chars)))
       ELSE IF ~IsBlank(char)
       THEN RaiseCannotParse /\ UNCHANGED pc
       ELSE UNCHANGED <<state, name_chars, val_chars, vars, result, pc>>

\* a variant of InComment in which '=' ends the comment as well
InComment_EndsOnEquals(char) ==
    /\ state = _DOTENV_STATE_IN_COMMENT
    /\ Reads(char)
    /\ UNCHANGED pc
    /\ IF IsLineBreak(char) \/ char = EQUALS
       THEN /\ state' = _DOTENV_STATE_BEFORE_NAME
            /\ UNCHANGED <<name_chars, val_chars, vars, result>>
       ELSE UNCHANGED <<state, name_chars, val_chars, vars, result>>

InComment(char) ==
    /\ state = _DOTENV_STATE_IN_COMMENT
    /\ Reads(char)
    /\ UNCHANGED pc
    /\ IF IsLineBreak(char)
       THEN /\ state' = _DOTENV_STATE_BEFORE_NAME
            /\ UNCHANGED <<name_chars, val_chars, vars, result>>
       ELSE UNCHANGED <<state, name_chars, val_chars, vars, result>>

AfterName(char) ==
    /\ state = _DOTENV_STATE_AFTER_NAME
    /\ Reads(char)
    /\ UNCHANGED pc
    /\ IF char = EQUALS
       THEN /\ state' = _DOTENV_STATE_BEFORE_VAL
            /\ UNCHANGED <<name_chars, val_chars, vars, result>>
       ELSE IF ~IsBlank(char)
       THEN RaiseCannotParse
       ELSE UNCHANGED <<state, name_chars, val_chars, vars, result>>

InQuotedName(char) ==
    /\ state = _DOTENV_STATE_IN_QUOTED_NAME
    /\ IF pc = "escape"
       THEN ReadsEscaped(char, SingleQuotedEscape(char), TRUE)
       ELSE IF char = SQUOTE
       THEN /\ Reads(char)
            /\ UNCHANGED pc
            /\ state' = _DOTENV_STATE_AFTER_NAME
            /\ UNCHANGED <<name_chars, val_chars, vars, result>>
       ELSE IF char = BACKSLASH
       THEN ReadsBackslash(char)
       ELSE /\ Reads(char)
            /\ UNCHANGED pc
            /\ name_chars' = Append(name_chars, char)
            /\ UNCHANGED <<state, val_chars, vars, result>>

\* next(chars) raised StopIteration.  At the top of the loop: the code after
\* the loop, where a yield suspends the generator before it returns.  At the
\* next(chars) that follows a backslash: StopIteration is raised inside the
\* generator body, which Python turns into RuntimeError (PEP 479).
EndOfInput ==
    /\ result = "running"
    /\ pc \in {"loop", "escape"}
    /\ UNCHANGED <<chars, state, name_chars, val_chars>>
    /\ UNCHANGED <<resolve_vars, session_vars, timedelta_vars>>
    /\ IF pc = "escape"
       THEN /\ result' = "RuntimeError"
            /\ UNCHANGED <<vars, pc>>
       ELSE IF state = _DOTENV_STATE_IN_UNQUOTED_VAL \/ state = _DOTENV_STATE_AFTER_VAL
       THEN /\ vars' = Append(vars, Var(name_chars, Str(val_chars)))
            /\ pc' = "last yield"
            /\ UNCHANGED result
       ELSE IF state = _DOTENV_STATE_BEFORE_VAL
       THEN /\ vars' = Append(vars, Var(name_chars, None))
            /\ pc' = "last yield"
            /\ UNCHANGED result
       ELSE IF state # _DOTENV_STATE_BEFORE_NAME
       THEN /\ result' = "CannotParse"
            /\ UNCHANGED <<vars, pc>>
       ELSE /\ result' = "returned"
            /\ UNCHANGED <<vars, pc>>

ParseNext ==
    \/ \E char \in Alphabet : BeforeName(char)
    \/ \E char \in Alphabet : InUnquotedName(char)
    \/ \E char \in Alphabet : BeforeVal(char)
    \/ \E char \in Alphabet : InUnquotedVal(char)
    \/ \E char \in EscapeAlphabet : InDoubleQuotedVal(char)
    \/ \E char \in EscapeAlphabet : InSingleQuotedVal(char)
    \/ \E char \in Alphabet : AfterVal(char)
    \/ \E char \in Alphabet : InComment(char)
    \/ \E char \in Alphabet : AfterName(char)
    \/ \E char \in EscapeAlphabet : InQuotedName(char)
    \/ EndOfInput
    \/ Resume


\* ------------------------------------------------------------------------
\* The schema: the _VarSpec list that _Datadotenv.__call__ compiles from a
\* dataclass, and the built-in conversions.

\* longest list of dataclass fields, longest stream of Vars handed to
\* from_chars_iter
MaxFields == 2
MaxVars == 2

\* values of the typed record
PyStr(s) == [t |-> "str", v |-> s]
PyInt(n) == [t |-> "int", v |-> n]
PyBool(b) == [t |-> "bool", v |-> b]
PyNone == [t |-> "NoneType"]
\* dataclasses.MISSING
MISSING == [t |-> "MISSING"]

\* the field names, declared types and defaults of the dataclasses and the
\* names and values of the Vars the model draws from: a A b, str int,
\* no default or "d", a A B, unset "1" "x"
FieldNames == {<<97>>, <<65>>, <<98>>}
FieldTypes == {"str", "int"}
FieldDefaults == {MISSING, PyStr(<<100>>)}
VarNames == {<<97>>, <<65>>, <<66>>}
VarValues == {None, Str(<<49>>), Str(<<120>>)}
_Casing == {"upper", "lower", "preserve", "ignore"}

\* str.lower() and str.upper() on ASCII text
Lower(s) ==
    [i \in 1..Len(s) |->
        IF UPPER_A <= s[i] /\ s[i] <= UPPER_Z THEN s[i] + 32 ELSE s[i]]
Upper(s) ==
    [i \in 1..Len(s) |->
        IF LOWER_A <= s[i] /\ s[i] <= LOWER_Z THEN s[i] - 32 ELSE s[i]]

_transform_case(transformation, s) ==
    IF transformation = "upper" THEN Upper(s)
    ELSE IF transformation = "lower" THEN Lower(s)
    ELSE IF transformation = "preserve" THEN s
    ELSE Lower(s)

\* no function: custom_convert=None; no validator: custom_validate=None,
\* here the empty chain of validators
NoConvert == [isset |-> FALSE]
NoValidate == <<>>

\* the keyword defaults of _Datadotenv.__call__: sequence_separator=","
\* and trim_sequence_items=True
COMMA == 44
DefaultSeparator == <<COMMA>>

\* an instance of the dataclass _VarSpecFilePathConfig
_VarSpecFilePathConfig(resolve, must_exist) ==
    [t |-> "_VarSpecFilePathConfig", resolve |-> resolve, must_exist |-> must_exist]

_VarSpec(dataclass_field_name, dataclass_field_type, dotenv_var_name, default, ignore_case, file_path_config, custom_convert, custom_validate, sequence_separator, trim_sequence_items) ==
    [dataclass_field_name |-> dataclass_field_name,
     dataclass_field_type |-> dataclass_field_type,
     dotenv_var_name |-> dotenv_var_name,
     default |-> default,
     ignore_case |-> ignore_case,
     file_path_config |-> file_path_config,
     custom_convert |-> custom_convert,
     custom_validate |-> custom_validate,
     sequence_separator |-> sequence_separator,
     trim_sequence_items |-> trim_sequence_items]

\* _Datadotenv.__call__: one _VarSpec per dataclass field, in field order
CompileAll(names, types, defaults, case, file_paths_must_exist, resolve_file_paths, sequence_separator, trim_sequence_items) ==
    [i \in 1..Len(names) |->
        _VarSpec(names[i], types[i], _transform_case(case, names[i]),
                 defaults[i], case = "ignore",
                 _VarSpecFilePathConfig(resolve_file_paths, file_paths_must_exist),
                 NoConvert, NoValidate,
                 sequence_separator, trim_sequence_items)]

\* the call with the keyword defaults for the file paths:
\* file_paths_must_exist=True and resolve_file_paths=True
CompileWith(names, types, defaults, case, sequence_separator, trim_sequence_items) ==
    CompileAll(names, types, defaults, case, TRUE, TRUE,
               sequence_separator, trim_sequence_items)

\* the call with the keyword defaults for the sequences
Compile(names, types, defaults, case) ==
    CompileWith(names, types, defaults, case, DefaultSeparator, TRUE)

\* the two name maps of _VarSpecRepository, as the set of their keys and
\* the index a key maps to: a later spec overwrites an earlier one with the
\* same key, so a key maps to the largest index that carries it.  An index
\* is a position of the list, counted from 1.
CaseSensitiveIndices(specs, name) ==
    {i \in 1..Len(specs) :
        ~specs[i].ignore_case /\ specs[i].dotenv_var_name = name}
CaseInsensitiveIndices(specs, name) ==
    {i \in 1..Len(specs) :
        specs[i].ignore_case /\ Lower(specs[i].dotenv_var_name) = name}
MaxOf(S) == CHOOSE i \in S : \A j \in S : j <= i

\* the index of the spec a dotenv name resolves to: the case-sensitive map
\* first, then the case-insensitive map with the lower-cased name; 0 stands
\* for raise error.VariableNotSpecified
find_spec_idx_for_var_name(specs, name) ==
    IF CaseSensitiveIndices(specs, name) # {}
    THEN MaxOf(CaseSensitiveIndices(specs, name))
    ELSE IF CaseInsensitiveIndices(specs, Lower(name)) # {}
    THEN MaxOf(CaseInsensitiveIndices(specs, Lower(name)))
    ELSE 0

\* the characters str.strip() removes at both ends: those for which
\* str.isspace() holds
PyWhitespace ==
    {9, 10, 11, 12, 13, 28, 29, 30, 31, 32, 133, 160, 5760}
        \cup (8192..8202) \cup {8232, 8233, 8239, 8287, 12288}
StripOf(s, whitespace) ==
    LET keep == {i \in 1..Len(s) : s[i] \notin whitespace}
    IN  IF keep = {} THEN <<>>
        ELSE SubSeq(s, CHOOSE i \in keep : \A j \in keep : i <= j, MaxOf(keep))
Strip(s) == StripOf(s, PyWhitespace)

\* the characters int() removes at both ends: the whitespace of ASCII that
\* the C library names (the separators 28 to 31 are not among them) and the
\* whitespace beyond ASCII, which int() reads as a space
IntWhitespace == PyWhitespace \ {28, 29, 30, 31}

\* the decimal digits int() reads: the digit 0 of every script, each
\* followed by its digits 1 to 9
DecimalZeros ==
    {48, 1632, 1776, 1984, 2406, 2534, 2662, 2790, 2918, 3046, 3174, 3302,
     3430, 3558, 3664, 3792, 3872, 4160, 4240, 6112, 6160, 6470, 6608, 6784,
     6800, 6992, 7088, 7232, 7248, 42528, 43216, 43264, 43472, 43504, 43600,
     44016, 65296, 66720, 68912, 69734, 69872, 69942, 70096, 70384, 70736,
     70864, 71248, 71360, 71472, 71904, 72016, 72784, 73040, 73120, 92768,
     92864, 93008, 120782, 120792, 120802, 120812, 120822, 123200, 123632,
     125264, 130032}
IsDecimal(c) == \E zero \in DecimalZeros : zero <= c /\ c <= zero + 9
DecimalOf(c) == c - (CHOOSE zero \in DecimalZeros : zero <= c /\ c <= zero + 9)

RECURSIVE DigitsValue(_)
DigitsValue(d) ==
    IF d = <<>> THEN 0
    ELSE 10 * DigitsValue(SubSeq(d, 1, Len(d) - 1)) + DecimalOf(d[Len(d)])

\* int(str_value) for base 10: whitespace stripped, an optional sign, then
\* digits that single underscores may separate.  ok = FALSE is ValueError.
PyIntOf(str_value) ==
    LET t == StripOf(str_value, IntWhitespace)
        signed == Len(t) > 0 /\ t[1] \in {43, 45}
        body == IF signed THEN SubSeq(t, 2, Len(t)) ELSE t
        wellformed ==
            /\ Len(body) > 0
            /\ IsDecimal(body[1])
            /\ IsDecimal(body[Len(body)])
            /\ \A i \in 1..Len(body) : IsDecimal(body[i]) \/ body[i] = UNDERSCORE
            /\ \A i \in 1..(Len(body) - 1) :
                    ~(body[i] = UNDERSCORE /\ body[i + 1] = UNDERSCORE)
        digits == SelectSeq(body, IsDecimal)
    IN  IF ~wellformed THEN [ok |-> FALSE]
        ELSE [ok |-> TRUE,
              n |-> IF signed /\ t[1] = 45 THEN 0 - DigitsValue(digits)
                    ELSE DigitsValue(digits)]

\* a conversion's result: a value, or the error that is raised
Value(v) == [ok |-> TRUE, value |-> v]
Raise(error) == [ok |-> FALSE, error |-> error]

_validate_and_convert_str_EmptyIsUnset(env_var) ==
    IF env_var.value = None \/ env_var.value = Str(<<>>) THEN Raise("VariableUnset")
    ELSE Value(PyStr(env_var.value.str))
_validate_and_convert_str(env_var) ==
    IF env_var.value = None THEN Raise("VariableUnset")
    ELSE Value(PyStr(env_var.value.str))

_validate_and_convert_bool_AnyCase(var) ==
    IF var.value = None THEN Raise("VariableUnset")
    ELSE IF Lower(var.value.str) = <<116, 114, 117, 101>> THEN Value(PyBool(TRUE))
    ELSE IF Lower(var.value.str) = <<102, 97, 108, 115, 101>> THEN Value(PyBool(FALSE))
    ELSE Raise("CannotConvertToType")
_validate_and_convert_bool(var) ==
    IF var.value = None THEN Raise("VariableUnset")
    ELSE IF var.value.str = <<116, 114, 117, 101>> \/ var.value.str = <<84, 114, 117, 101>>
    THEN Value(PyBool(TRUE))
    ELSE IF var.value.str = <<102, 97, 108, 115, 101>>
            \/ var.value.str = <<70, 97, 108, 115, 101>>
    THEN Value(PyBool(FALSE))
    ELSE Raise("CannotConvertToType")

_validate_and_convert_int(var) ==
    IF var.value = None THEN Raise("VariableUnset")
    ELSE IF PyIntOf(var.value.str).ok THEN Value(PyInt(PyIntOf(var.value.str).n))
    ELSE Raise("CannotConvertToType")

_validate_and_convert_unset_AcceptsEmpty(var) ==
    IF var.value = None \/ var.value = Str(<<>>) THEN Value(PyNone)
    ELSE Raise("CannotConvertToType")
_validate_and_convert_unset(var) ==
    IF var.value = None THEN Value(PyNone)
    ELSE Raise("CannotConvertToType")

\* The declared types, written as in the dataclass.  None is the value
\* None, NoneType is the class type(None).  T | None and T | U are
\* types.UnionType objects; typing.Union[T, None] and typing.Optional[T]
\* are the same typing object, whose __name__ is "Optional", and
\* typing.Union[T, U] has the __name__ "Union".  typing.get_args gives the
\* class NoneType for the None of all forms.  complex is a class that no
\* built-in handler converts.
UnionTypes ==
    {"int | None", "str | None", "bool | None",
     "int | str", "str | int", "int | bool", "bool | int", "complex | int"}
OptionalTypes ==
    {"Union[int, None]", "Union[str, None]", "Union[bool, None]",
     "Optional[int]", "Optional[str]", "Optional[bool]"}
TypingUnionTypes == {"Union[int, str]", "Union[str, int]"}
\* typing.Literal[...] of strings and integers, and one with an option of
\* the class bytes, which no built-in handler converts; get_args gives the
\* options themselves, and the class of an option is its t
LiteralTypes ==
    {"Literal['x', 42]", "Literal[42, 'x']", "Literal['x', '1']",
     "Literal[b'x', 42]"}
PyBytes(s) == [t |-> "bytes", v |-> s]
\* list[T] and tuple[T1, ..., Tn]; tuple[()] is the tuple of no items
ListTypes == {"list[int]", "list[str]", "list[complex]"}
TupleTypes ==
    {"tuple[int, str]", "tuple[str, str]", "tuple[int]", "tuple[()]",
     "tuple[int, complex]"}
PyList(items) == [t |-> "list", v |-> items]
PyTuple(items) == [t |-> "tuple", v |-> items]
get_args(type_) ==
    IF type_ \in {"int | None", "Union[int, None]", "Optional[int]"}
    THEN <<"int", "NoneType">>
    ELSE IF type_ \in {"str | None", "Union[str, None]", "Optional[str]"}
    THEN <<"str", "NoneType">>
    ELSE IF type_ \in {"bool | None", "Union[bool, None]", "Optional[bool]"}
    THEN <<"bool", "NoneType">>
    ELSE IF type_ \in {"int | str", "Union[int, str]"} THEN <<"int", "str">>
    ELSE IF type_ \in {"str | int", "Union[str, int]"} THEN <<"str", "int">>
    ELSE IF type_ = "int | bool" THEN <<"int", "bool">>
    ELSE IF type_ = "bool | int" THEN <<"bool", "int">>
    ELSE IF type_ = "complex | int" THEN <<"complex", "int">>
    ELSE IF type_ = "Literal['x', 42]" THEN <<PyStr(<<120>>), PyInt(42)>>
    ELSE IF type_ = "Literal[42, 'x']" THEN <<PyInt(42), PyStr(<<120>>)>>
    ELSE IF type_ = "Literal['x', '1']" THEN <<PyStr(<<120>>), PyStr(<<49>>)>>
    ELSE IF type_ = "Literal[b'x', 42]" THEN <<PyBytes(<<120>>), PyInt(42)>>
    ELSE IF type_ \in {"list[int]", "tuple[int]"} THEN <<"int">>
    ELSE IF type_ = "list[str]" THEN <<"str">>
    ELSE IF type_ = "list[complex]" THEN <<"complex">>
    ELSE IF type_ = "tuple[int, str]" THEN <<"int", "str">>
    ELSE IF type_ = "tuple[str, str]" THEN <<"str", "str">>
    ELSE IF type_ = "tuple[int, complex]" THEN <<"int", "complex">>
    ELSE <<>>
get_origin(type_) ==
    IF type_ \in ListTypes THEN "list"
    ELSE IF type_ \in TupleTypes THEN "tuple"
    ELSE IF type_ \in UnionTypes THEN "UnionType"
    ELSE IF type_ \in OptionalTypes \cup TypingUnionTypes THEN "Union"
    ELSE IF type_ \in LiteralTypes THEN "Literal"
    ELSE "None"
__name__(type_) ==
    IF type_ \in OptionalTypes THEN "Optional"
    ELSE IF type_ \in UnionTypes THEN "UnionType"
    ELSE IF type_ \in TypingUnionTypes THEN "Union"
    ELSE IF type_ \in LiteralTypes THEN "Literal"
    ELSE IF type_ \in ListTypes THEN "list"
    ELSE IF type_ \in TupleTypes THEN "tuple"
    ELSE type_

\* an error with the message that the claims speak of: the string that a
\* validator returned, verbatim, or one of the texts of the library with
\* the values that are put into it
RaiseMessage(error, format, text) ==
    [ok |-> FALSE, error |-> error, message |-> [format |-> format, text |-> text]]

\* str.split(sep) for a separator that is not empty: the pieces between the
\* occurrences of sep, found from the left and not overlapping
find(s, sep) ==
    LET hits == {i \in 1..(Len(s) - Len(sep) + 1) :
                    SubSeq(s, i, i + Len(sep) - 1) = sep}
    IN  IF hits = {} THEN 0 ELSE CHOOSE i \in hits : \A j \in hits : i <= j
RECURSIVE split(_, _)
split(s, sep) ==
    IF find(s, sep) = 0 THEN <<s>>
    ELSE <<SubSeq(s, 1, find(s, sep) - 1)>>
            \o split(SubSeq(s, find(s, sep) + Len(sep), Len(s)), sep)

\* The functions of the user.  A convert_str_to_type is len or str.upper;
\* a default_if_unset is a value or the Ellipsis that stands for none.
Ellipsis == [t |-> "ellipsis"]
UserConverters == {"len", "str.upper"}
CallConverter(convert_str_to_type, s) ==
    IF convert_str_to_type = "len" THEN PyInt(Len(s)) ELSE PyStr(Upper(s))

\* A validator of the user is one of: accept (returns True), nothing
\* (returns None), reject (returns False), message and other_message
\* (return the strings "m" and "n"), value_error (returns ValueError()),
\* invalid_value (returns error.InvalidValue()), zero (returns 0) and
\* is_int (returns isinstance(value, int)).
PyException(class) == [t |-> "exception", v |-> class]
UserValidators ==
    {"accept", "nothing", "reject", "message", "other_message", "value_error",
     "invalid_value", "zero", "is_int"}
CallValidator(user_validate, value) ==
    IF user_validate = "accept" THEN PyBool(TRUE)
    ELSE IF user_validate = "nothing" THEN PyNone
    ELSE IF user_validate = "reject" THEN PyBool(FALSE)
    ELSE IF user_validate = "message" THEN PyStr(<<109>>)
    ELSE IF user_validate = "other_message" THEN PyStr(<<110>>)
    ELSE IF user_validate = "value_error" THEN PyException("ValueError")
    ELSE IF user_validate = "invalid_value" THEN PyException("InvalidValue")
    ELSE IF user_validate = "zero" THEN PyInt(0)
    ELSE PyBool(value.t \in {"int", "bool"})

\* _resolve_user_validate(user_validate)(var, value): returns, or raises
\* what the result of the validator stands for
_resolve_user_validate(user_validate, var, value) ==
    LET validate_res == CallValidator(user_validate, value)
    IN  IF validate_res.t = "bool" /\ ~validate_res.v
        THEN RaiseMessage("InvalidValue", "value is invalid", var.name)
        ELSE IF validate_res.t = "str"
        THEN RaiseMessage("InvalidValue", "verbatim", validate_res.v)
        ELSE IF validate_res.t = "exception" THEN Raise(validate_res.v)
        ELSE IF validate_res.t = "bool" \/ validate_res.t = "NoneType"
        THEN Value(PyNone)
        ELSE Raise("TypeError")

\* spec.custom_validate(var, value), the chain that _Spec.validate builds:
\* the validators in the order they were attached, up to the first that
\* raises
RECURSIVE custom_validate(_, _, _)
custom_validate(chain, var, value) ==
    IF chain = <<>> THEN Value(PyNone)
    ELSE IF ~_resolve_user_validate(Head(chain), var, value).ok
    THEN _resolve_user_validate(Head(chain), var, value)
    ELSE custom_validate(Tail(chain), var, value)

\* a variant of custom_convert that calls the function of the user with
\* the empty string when the variable is unset
custom_convert_CallsOnUnset(convert, var) ==
    IF var.value = None THEN Value(CallConverter(convert.convert_str_to_type, <<>>))
    ELSE Value(CallConverter(convert.convert_str_to_type, var.value.str))
\* spec.custom_convert(var), the closure that _Spec.convert stores
custom_convert(convert, var) ==
    IF var.value = None
    THEN IF convert.default_if_unset = Ellipsis THEN Raise("VariableUnset")
         ELSE Value(convert.default_if_unset)
    ELSE Value(CallConverter(convert.convert_str_to_type, var.value.str))

\* _Datadotenv.ConvertType and the _ValidatorAndConverterSpec made of it;
\* validate is the chain of no validator or of one
ConvertType(type_matcher, convert_str_to_type, default_if_unset, validate) ==
    [type_matcher |-> type_matcher,
     convert_str_to_type |-> convert_str_to_type,
     default_if_unset |-> default_if_unset,
     validate |-> validate]

\* issubclass(cls, classinfo) for a class cls: bool is a subclass of int,
\* and a class is a subclass of a union when it is one of an option;
\* for a list, a tuple, a literal and None the call raises
RECURSIVE issubclass(_, _)
issubclass(cls, classinfo) ==
    IF get_origin(classinfo) \in {"UnionType", "Union"}
    THEN \E i \in 1..Len(get_args(classinfo)) :
            issubclass(cls, get_args(classinfo)[i])
    ELSE IF get_origin(classinfo) # "None" \/ classinfo = "None" THEN FALSE
    ELSE cls = classinfo \/ (cls = "bool" /\ classinfo = "int")

\* the functions of a ("check", function) matcher: one that accepts every
\* type and one that accepts none
UserChecks == {"check any", "check none"}
\* _ValidatorAndConverterSpec.check_type_matches(type_)
check_type_matches(spec, type_) ==
    IF spec.type_matcher \in UserChecks THEN spec.type_matcher = "check any"
    ELSE issubclass(spec.type_matcher, type_) \/ spec.type_matcher = type_

\* _ValidatorAndConverterSpec.validate_and_convert(var)
validate_and_convert(spec, var) ==
    LET converted == custom_convert(spec, var)
    IN  IF ~converted.ok THEN converted
        ELSE IF ~custom_validate(spec.validate, var, converted.value).ok
        THEN custom_validate(spec.validate, var, converted.value)
        ELSE converted

\* a variant of FirstMatching that gives the last registered spec that
\* accepts the type
FirstMatching_Last(custom_validator_and_converter_specs, type_) ==
    LET hits == {i \in 1..Len(custom_validator_and_converter_specs) :
                    check_type_matches(custom_validator_and_converter_specs[i], type_)}
    IN  IF hits = {} THEN 0 ELSE MaxOf(hits)
\* the first registered spec whose matcher accepts the type, 0 if none
FirstMatching(custom_validator_and_converter_specs, type_) ==
    LET hits == {i \in 1..Len(custom_validator_and_converter_specs) :
                    check_type_matches(custom_validator_and_converter_specs[i], type_)}
    IN  IF hits = {} THEN 0 ELSE CHOOSE i \in hits : \A j \in hits : i <= j

\* _choose_validator_and_converter(...) raises NotImplemented: no converter
\* is attached to the field, none is registered for the type and no
\* built-in handler takes it.  The converter of a list and of a tuple
\* chooses the converters of the items when it is made; the converters of
\* unions, optionals and literals choose theirs when they are called.
RECURSIVE _choose_raises(_, _, _)
_choose_raises(var_spec, type_, custom_validator_and_converter_specs) ==
    IF var_spec.custom_validate # NoValidate THEN FALSE
    ELSE IF var_spec.custom_convert # NoConvert THEN FALSE
    ELSE IF FirstMatching(custom_validator_and_converter_specs, type_) # 0 THEN FALSE
    ELSE IF type_ \in {"bool", "int", "None"} THEN FALSE
    ELSE IF get_origin(type_) \in {"list", "tuple"}
    THEN \E i \in 1..Len(get_args(type_)) :
            _choose_raises(var_spec, get_args(type_)[i],
                           custom_validator_and_converter_specs)
    ELSE IF type_ \in UnionTypes \/ __name__(type_) \in {"Union", "Optional", "Literal"}
    THEN FALSE
    ELSE type_ \notin {"Path", "str"}

\* dataclasses.asdict(var_spec): the fields of the spec by name, where a
\* field that is itself an instance of a dataclass is turned into a dict of
\* its fields; the other fields are copied
asdict(var_spec) ==
    [var_spec EXCEPT !.file_path_config =
        [t |-> "dict", resolve |-> @.resolve, must_exist |-> @.must_exist]]

\* The file system that the paths are looked up in: the working directory
\* is the root, the root is all that exists, there are no links, and no
\* name is longer than the file system allows.
Root == <<47>>
Cwd == Root
ExistingPaths == {Root}
PyPath(parts) == [t |-> "Path", v |-> parts]

\* the first place of t that holds a character of S, 0 if none does
FirstOf(t, S) ==
    LET hits == {i \in 1..Len(t) : t[i] \in S}
    IN  IF hits = {} THEN 0 ELSE CHOOSE i \in hits : \A j \in hits : i <= j
\* the names between the slashes of s, the empty ones included
RECURSIVE Components(_)
Components(s) ==
    LET slash == FirstOf(s, {Root[1]})
    IN  IF slash = 0 THEN <<s>>
        ELSE <<SubSeq(s, 1, slash - 1)>> \o Components(SubSeq(s, slash + 1, Len(s)))
\* the names joined with slashes
RECURSIVE JoinPath(_)
JoinPath(names) ==
    IF names = <<>> THEN <<>>
    ELSE IF Len(names) = 1 THEN names[1]
    ELSE names[1] \o Root \o JoinPath(Tail(names))
IsName(name) == name # <<>> /\ name # <<DOT>>
\* the root of a path: two slashes at the start stay two, one or three and
\* more are one
RootOf(s) ==
    IF s = <<>> \/ <<s[1]>> # Root THEN <<>>
    ELSE IF Len(s) >= 2 /\ <<s[2]>> = Root /\ (Len(s) = 2 \/ <<s[3]>> # Root)
    THEN Root \o Root
    ELSE Root
\* Path(s): the root and the names of s without the empty ones and without
\* the ones that are ".", and "." where nothing is left
Path(s) ==
    LET normal == RootOf(s) \o JoinPath(SelectSeq(Components(s), IsName))
    IN  PyPath(IF normal = <<>> THEN <<DOT>> ELSE normal)
\* the directory reached from the names of dir by the names that follow:
\* ".." is the directory above, which for the root is the root
RECURSIVE Walk(_, _)
Walk(dir, names) ==
    IF names = <<>> THEN dir
    ELSE IF names[1] = <<DOT, DOT>>
    THEN Walk(IF dir = <<>> THEN dir ELSE SubSeq(dir, 1, Len(dir) - 1), Tail(names))
    ELSE Walk(Append(dir, names[1]), Tail(names))
NamesOf(s) == SelectSeq(Components(s), IsName)
StartOf(file_path) == IF RootOf(file_path.v) = <<>> THEN NamesOf(Cwd) ELSE <<>>
\* Path.resolve(file_path): the path from the root, without ".."
resolve(file_path) ==
    PyPath(Root \o JoinPath(Walk(StartOf(file_path), NamesOf(file_path.v))))
\* file_path.exists(): every directory on the way and the file at its end
\* exist
Exists(names) == Root \o JoinPath(names) \in ExistingPaths
RECURSIVE WalkExists(_, _)
WalkExists(dir, names) ==
    /\ Exists(dir)
    /\ names # <<>> => WalkExists(Walk(dir, <<names[1]>>), Tail(names))
exists(file_path) ==
    /\ 0 \notin {file_path.v[i] : i \in 1..Len(file_path.v)}
    /\ WalkExists(StartOf(file_path), NamesOf(file_path.v))

\* _create_validate_and_convert_file_path(var_spec)(var): the attributes
\* resolve and must_exist are read from var_spec.file_path_config, which
\* has them when it is a _VarSpecFilePathConfig and not when it is a dict;
\* Path.resolve raises ValueError for a path that holds the character 0
_create_validate_and_convert_file_path(var_spec, var) ==
    IF var.value = None THEN Raise("VariableUnset")
    ELSE IF var_spec.file_path_config.t # "_VarSpecFilePathConfig"
    THEN Raise("AttributeError")
    ELSE IF var_spec.file_path_config.resolve
            /\ 0 \in {var.value.str[i] : i \in 1..Len(var.value.str)}
    THEN Raise("ValueError")
    ELSE LET file_path == IF var_spec.file_path_config.resolve
                          THEN resolve(Path(var.value.str))
                          ELSE Path(var.value.str)
         IN  IF var_spec.file_path_config.must_exist /\ ~exists(file_path)
             THEN Raise("FilePathDoesNotExist")
             ELSE Value(file_path)

\* _choose_validator_and_converter(var_spec, type_, specs)(var): the
\* validators attached to the field run on what the rest of the choice
\* gives; a converter attached to the field comes first, then the first
\* registered converter that accepts the type, then the built-in handlers
\* of bool, int, None, lists, tuples, unions, optionals, literals and str.
\* The converter of a union returns what the first option returns that
\* does not raise, whatever it raises, and the converter of an optional is
\* the converter of the first type argument for a set value.
RECURSIVE _choose_validator_and_converter(_, _, _, _)
\* the items of a list or a tuple, each converted with the converter of
\* its position, up to the first that raises
RECURSIVE ConvertItems(_, _, _, _, _)
ConvertItems(var_spec, item_types, custom_validator_and_converter_specs, name, item_strs) ==
    IF item_strs = <<>> THEN Value(<<>>)
    ELSE LET item == _choose_validator_and_converter(
                        var_spec, Head(item_types),
                        custom_validator_and_converter_specs,
                        Var(name, Str(IF var_spec.trim_sequence_items
                                      THEN Strip(Head(item_strs))
                                      ELSE Head(item_strs))))
             rest == ConvertItems(var_spec, Tail(item_types),
                                  custom_validator_and_converter_specs,
                                  name, Tail(item_strs))
         IN  IF ~item.ok THEN item
             ELSE IF ~rest.ok THEN rest
             ELSE Value(<<item.value>> \o rest.value)
\* the value that is split: stripped as a whole when trim_sequence_items
SequenceStr(var_spec, var) ==
    IF var_spec.trim_sequence_items THEN Strip(var.value.str) ELSE var.value.str

\* a variant of the list converter that drops the empty pieces
_create_validate_and_convert_list_DropsEmpty(var_spec, list_type, custom_validator_and_converter_specs, var) ==
    IF _choose_raises(var_spec, get_args(list_type)[1],
                      custom_validator_and_converter_specs)
    THEN Raise("NotImplemented")
    ELSE IF var.value = None THEN Value(PyList(<<>>))
    ELSE IF var_spec.sequence_separator = <<>> THEN Raise("ValueError")
    ELSE LET item_strs == SelectSeq(split(SequenceStr(var_spec, var),
                                          var_spec.sequence_separator),
                                    LAMBDA piece : piece # <<>>)
             items == ConvertItems(
                        var_spec,
                        [i \in 1..Len(item_strs) |-> get_args(list_type)[1]],
                        custom_validator_and_converter_specs, var.name, item_strs)
         IN  IF items.ok THEN Value(PyList(items.value)) ELSE items
_create_validate_and_convert_list(var_spec, list_type, custom_validator_and_converter_specs, var) ==
    IF _choose_raises(var_spec, get_args(list_type)[1],
                      custom_validator_and_converter_specs)
    THEN Raise("NotImplemented")
    ELSE IF var.value = None THEN Value(PyList(<<>>))
    ELSE IF var_spec.sequence_separator = <<>> THEN Raise("ValueError")
    ELSE LET item_strs == split(SequenceStr(var_spec, var),
                                var_spec.sequence_separator)
             items == ConvertItems(
                        var_spec,
                        [i \in 1..Len(item_strs) |-> get_args(list_type)[1]],
                        custom_validator_and_converter_specs, var.name, item_strs)
         IN  IF items.ok THEN Value(PyList(items.value)) ELSE items

\* a variant of the tuple converter that takes the first items when there
\* are too many
_create_validate_and_convert_tuple_Truncates(var_spec, tuple_type, custom_validator_and_converter_specs, var) ==
    IF \E i \in 1..Len(get_args(tuple_type)) :
            _choose_raises(var_spec, get_args(tuple_type)[i],
                           custom_validator_and_converter_specs)
    THEN Raise("NotImplemented")
    ELSE IF var.value = None THEN Value(PyTuple(<<>>))
    ELSE IF var_spec.sequence_separator = <<>> THEN Raise("ValueError")
    ELSE LET item_types == get_args(tuple_type)
             item_strs == split(SequenceStr(var_spec, var),
                                var_spec.sequence_separator)
             items == ConvertItems(var_spec, item_types,
                                   custom_validator_and_converter_specs,
                                   var.name, SubSeq(item_strs, 1, Len(item_types)))
         IN  IF Len(item_strs) < Len(item_types)
             THEN RaiseMessage("InvalidValue", "too few items",
                               <<Len(item_types), Len(item_strs)>>)
             ELSE IF items.ok THEN Value(PyTuple(items.value))
             ELSE items
_create_validate_and_convert_tuple(var_spec, tuple_type, custom_validator_and_converter_specs, var) ==
    IF \E i \in 1..Len(get_args(tuple_type)) :
            _choose_raises(var_spec, get_args(tuple_type)[i],
                           custom_validator_and_converter_specs)
    THEN Raise("NotImplemented")
    ELSE IF var.value = None THEN Value(PyTuple(<<>>))
    ELSE IF var_spec.sequence_separator = <<>> THEN Raise("ValueError")
    ELSE LET item_types == get_args(tuple_type)
             item_strs == split(SequenceStr(var_spec, var),
                                var_spec.sequence_separator)
             items == ConvertItems(var_spec, item_types,
                                   custom_validator_and_converter_specs,
                                   var.name, item_strs)
         IN  IF Len(item_strs) > Len(item_types)
             THEN RaiseMessage("InvalidValue", "too many items",
                               <<Len(item_types), Len(item_strs)>>)
             ELSE IF Len(item_strs) < Len(item_types)
             THEN RaiseMessage("InvalidValue", "too few items",
                               <<Len(item_types), Len(item_strs)>>)
             ELSE IF items.ok THEN Value(PyTuple(items.value))
             ELSE items

RECURSIVE _create_validate_and_convert_union_LastSuccess(_, _, _, _)
\* a variant of the union converter that goes on after a success and
\* returns what the last option returns that does not raise
_create_validate_and_convert_union_LastSuccess(var_spec, options, custom_validator_and_converter_specs, env_var) ==
    IF options = <<>> THEN Raise("CannotConvertToType")
    ELSE IF _create_validate_and_convert_union_LastSuccess(
                var_spec, Tail(options),
                custom_validator_and_converter_specs, env_var).ok
    THEN _create_validate_and_convert_union_LastSuccess(
                var_spec, Tail(options),
                custom_validator_and_converter_specs, env_var)
    ELSE IF _choose_validator_and_converter(
                var_spec, Head(options),
                custom_validator_and_converter_specs, env_var).ok
    THEN _choose_validator_and_converter(
                var_spec, Head(options),
                custom_validator_and_converter_specs, env_var)
    ELSE Raise("CannotConvertToType")
RECURSIVE _create_validate_and_convert_union(_, _, _, _)
_create_validate_and_convert_union(var_spec, options, custom_validator_and_converter_specs, env_var) ==
    IF options = <<>> THEN Raise("CannotConvertToType")
    ELSE IF _choose_validator_and_converter(
                var_spec, Head(options),
                custom_validator_and_converter_specs, env_var).ok
    THEN _choose_validator_and_converter(
                var_spec, Head(options),
                custom_validator_and_converter_specs, env_var)
    ELSE _create_validate_and_convert_union(
                var_spec, Tail(options),
                custom_validator_and_converter_specs, env_var)
_create_validate_and_convert_optional(var_spec, type_, custom_validator_and_converter_specs, var) ==
    IF var.value = None THEN Value(PyNone)
    ELSE _choose_validator_and_converter(
            var_spec, get_args(type_)[1],
            custom_validator_and_converter_specs, var)
\* the converter of a literal, over the options that are left: the
\* converter of the option's class is chosen and called inside the try;
\* whatever it raises meets "except NotImplemented", which names the
\* built-in constant and no exception class, so matching the exception
\* against it raises TypeError; after the last option the message is built
\* from option.__name__, which the options, being str, int and bytes
\* objects, do not have
RECURSIVE _create_validate_and_convert_literal(_, _, _, _)
_create_validate_and_convert_literal(var_spec, options, custom_validator_and_converter_specs, env_var) ==
    IF options = <<>> THEN Raise("AttributeError")
    ELSE LET converted == _choose_validator_and_converter(
                            var_spec, Head(options).t,
                            custom_validator_and_converter_specs, env_var)
         IN  IF ~converted.ok THEN Raise("TypeError")
             ELSE IF Head(options).t = converted.value.t
                     /\ Head(options) = converted.value
             THEN Value(Head(options))
             ELSE _create_validate_and_convert_literal(
                        var_spec, Tail(options),
                        custom_validator_and_converter_specs, env_var)
_choose_validator_and_converter(var_spec, type_, custom_validator_and_converter_specs, var) ==
    IF var_spec.custom_validate # NoValidate
    THEN LET value == _choose_validator_and_converter(
                        [asdict(var_spec) EXCEPT !.custom_validate = NoValidate],
                        type_, custom_validator_and_converter_specs, var)
         IN  IF ~value.ok THEN value
             ELSE IF ~custom_validate(var_spec.custom_validate, var, value.value).ok
             THEN custom_validate(var_spec.custom_validate, var, value.value)
             ELSE value
    ELSE IF var_spec.custom_convert # NoConvert
    THEN custom_convert(var_spec.custom_convert, var)
    ELSE IF FirstMatching(custom_validator_and_converter_specs, type_) # 0
    THEN validate_and_convert(
            custom_validator_and_converter_specs[
                FirstMatching(custom_validator_and_converter_specs, type_)], var)
    ELSE IF type_ = "bool" THEN _validate_and_convert_bool(var)
    ELSE IF type_ = "int" THEN _validate_and_convert_int(var)
    ELSE IF type_ = "None" THEN _validate_and_convert_unset(var)
    ELSE IF get_origin(type_) = "list"
    THEN _create_validate_and_convert_list(
            var_spec, type_, custom_validator_and_converter_specs, var)
    ELSE IF get_origin(type_) = "tuple"
    THEN _create_validate_and_convert_tuple(
            var_spec, type_, custom_validator_and_converter_specs, var)
    ELSE IF type_ \in UnionTypes \/ __name__(type_) = "Union"
    THEN _create_validate_and_convert_union(
            var_spec, get_args(type_), custom_validator_and_converter_specs, var)
    ELSE IF __name__(type_) = "Optional"
    THEN _create_validate_and_convert_optional(
            var_spec, type_, custom_validator_and_converter_specs, var)
    ELSE IF __name__(type_) = "Literal"
    THEN _create_validate_and_convert_literal(
            var_spec, get_args(type_), custom_validator_and_converter_specs, var)
    ELSE IF type_ = "Path" THEN _create_validate_and_convert_file_path(var_spec, var)
    ELSE IF type_ = "str" THEN _validate_and_convert_str(var)
    ELSE Raise("NotImplemented")

\* ------------------------------------------------------------------------
\* _Spec.from_chars_iter.


Running == [kind |-> "running"]
NoKwargs == [n \in {} |-> MISSING]
\* a variant of SetKwarg that keeps the value a name already has
SetKwarg_KeepsFirst(kwargs, name, value) ==
    [n \in DOMAIN kwargs \cup {name} |->
        IF n \in DOMAIN kwargs THEN kwargs[n] ELSE value]
\* dataclass_kwargs[name] = value
SetKwarg(kwargs, name, value) ==
    [n \in DOMAIN kwargs \cup {name} |-> IF n = name THEN value ELSE kwargs[n]]

\* the progress of a call: the resolved flags, the keyword arguments
\* collected and the outcome
CallState(resolved, kwargs, out) ==
    [_resolved |-> resolved, dataclass_kwargs |-> kwargs, outcome |-> out]

\* the state at the start of a call: _VarSpecResolveGroup(self._var_specs)
StartOfCall(specs) ==
    CallState([i \in 1..Len(specs) |-> FALSE], NoKwargs, Running)

\* the error that ends the call when a conversion raises
Raised(converted, var) ==
    IF "message" \in DOMAIN converted
    THEN [kind |-> converted.error, name |-> var.name, message |-> converted.message]
    ELSE [kind |-> converted.error, name |-> var.name]

\* a variant of HandleVar that raises VariableNotSpecified whatever
\* allow_incomplete is
HandleVar_AlwaysRejects(specs, custom_validator_and_converter_specs, allow, c, var) ==
    LET idx == find_spec_idx_for_var_name(specs, var.name)
    IN  IF idx = 0
        THEN CallState(c._resolved, c.dataclass_kwargs,
                       [kind |-> "VariableNotSpecified", name |-> var.name])
        ELSE LET marked == [c._resolved EXCEPT ![idx] = TRUE]
                 converted == _choose_validator_and_converter(
                                  specs[idx], specs[idx].dataclass_field_type,
                                  custom_validator_and_converter_specs, var)
             IN  IF converted.ok
                 THEN CallState(marked,
                                SetKwarg(c.dataclass_kwargs,
                                         specs[idx].dataclass_field_name,
                                         converted.value),
                                Running)
                 ELSE CallState(marked, c.dataclass_kwargs, Raised(converted, var))

\* the body of "for var in parse.dotenv_from_chars_iter(chars)" for one var:
\* find_spec_for_var_and_mark_as_resolved, the choice of the converter, the
\* conversion and the store; VariableNotSpecified is swallowed when
\* allow_incomplete is set
HandleVar(specs, custom_validator_and_converter_specs, allow, c, var) ==
    LET idx == find_spec_idx_for_var_name(specs, var.name)
    IN  IF idx = 0
        THEN IF allow THEN c
             ELSE CallState(c._resolved, c.dataclass_kwargs,
                            [kind |-> "VariableNotSpecified", name |-> var.name])
        ELSE LET marked == [c._resolved EXCEPT ![idx] = TRUE]
                 converted == _choose_validator_and_converter(
                                  specs[idx], specs[idx].dataclass_field_type,
                                  custom_validator_and_converter_specs, var)
             IN  IF converted.ok
                 THEN CallState(marked,
                                SetKwarg(c.dataclass_kwargs,
                                         specs[idx].dataclass_field_name,
                                         converted.value),
                                Running)
                 ELSE CallState(marked, c.dataclass_kwargs, Raised(converted, var))

\* the loop over get_unresolved_specs(): the generator reads _resolved[i]
\* when it arrives at position i, after the marks made for earlier defaults;
\* mark_as_resolved marks the index the spec's dotenv name resolves to
RECURSIVE ApplyDefaults(_, _, _, _)
ApplyDefaults(specs, i, resolved, kwargs) ==
    IF i > Len(specs) THEN CallState(resolved, kwargs, Running)
    ELSE IF ~resolved[i] /\ specs[i].default # MISSING
    THEN ApplyDefaults(
            specs, i + 1,
            [resolved EXCEPT
                ![find_spec_idx_for_var_name(specs, specs[i].dotenv_var_name)] = TRUE],
            SetKwarg(kwargs, specs[i].dataclass_field_name, specs[i].default))
    ELSE ApplyDefaults(specs, i + 1, resolved, kwargs)

\* self._datacls(**dataclass_kwargs): a field that is not passed takes its
\* default; a field without default that is not passed is a TypeError
Construct(specs, kwargs) ==
    IF \E i \in 1..Len(specs) :
            /\ specs[i].dataclass_field_name \notin DOMAIN kwargs
            /\ specs[i].default = MISSING
    THEN [kind |-> "TypeError"]
    ELSE [kind |-> "returned",
          record |->
            [n \in {specs[i].dataclass_field_name : i \in 1..Len(specs)} |->
                IF n \in DOMAIN kwargs THEN kwargs[n]
                ELSE (CHOOSE sp \in {specs[i] : i \in 1..Len(specs)} :
                        sp.dataclass_field_name = n).default]]

\* _raise_on_missing on the specs still unresolved, then the construction
\* of the dataclass
_raise_on_missing(specs, resolved, kwargs) ==
    LET unresolved(i) == ~resolved[i]
        missing == SelectSeq([i \in 1..Len(specs) |-> i], unresolved)
    IN  IF Len(missing) = 0 THEN Construct(specs, kwargs)
        ELSE [kind |-> "VariableMissing",
              missing_dataclass_field_names |->
                [k \in 1..Len(missing) |-> specs[missing[k]].dataclass_field_name],
              missing_var_names |->
                [k \in 1..Len(missing) |-> specs[missing[k]].dotenv_var_name]]

\* the code of from_chars_iter after the loop over the Vars
AfterLoop(specs, c) ==
    LET d == ApplyDefaults(specs, 1, c._resolved, c.dataclass_kwargs)
    IN  CallState(d._resolved, d.dataclass_kwargs,
                  _raise_on_missing(specs, d._resolved, d.dataclass_kwargs))

Current == CallState(_resolved, dataclass_kwargs, outcome)
Becomes(c) ==
    /\ _resolved' = c._resolved
    /\ dataclass_kwargs' = c.dataclass_kwargs
    /\ outcome' = c.outcome

\* datadotenv(datacls, case=..., allow_incomplete=...) on a dataclass of up
\* to MaxFields fields, then the start of from_chars_iter
ResolveInit ==
    /\ \E n \in 1..MaxFields :
        \E names \in [1..n -> FieldNames] :
        \E types \in [1..n -> FieldTypes] :
        \E defaults \in [1..n -> FieldDefaults] :
        \E case \in _Casing :
            /\ \A i, j \in 1..n : i # j => names[i] # names[j]
            /\ var_specs = Compile(names, types, defaults, case)
    /\ allow_incomplete \in BOOLEAN
    /\ _resolved = StartOfCall(var_specs)._resolved
    /\ dataclass_kwargs = NoKwargs
    /\ outcome = Running
    /\ seen = <<>>

\* the parser yields var and the loop body runs on it
NextVar(var) ==
    /\ outcome = Running
    /\ Len(seen) < MaxVars
    /\ seen' = Append(seen, var)
    /\ Becomes(HandleVar(var_specs, _custom_validators_and_converters_specs,
                         allow_incomplete, Current, var))
    /\ UNCHANGED <<var_specs, allow_incomplete>>
    /\ UNCHANGED <<parse_vars, session_vars, timedelta_vars>>

\* the parser raises on malformed text; the error leaves from_chars_iter
ParserRaises(error) ==
    /\ outcome = Running
    /\ outcome' = [kind |-> error]
    /\ UNCHANGED <<var_specs, allow_incomplete, _resolved, dataclass_kwargs, seen>>
    /\ UNCHANGED <<parse_vars, session_vars, timedelta_vars>>

\* the parser is exhausted: defaults, _raise_on_missing, the record
EndOfVars ==
    /\ outcome = Running
    /\ Becomes(AfterLoop(var_specs, Current))
    /\ UNCHANGED <<var_specs, allow_incomplete, seen>>
    /\ UNCHANGED <<parse_vars, session_vars, timedelta_vars>>

ResolveNext ==
    \/ \E name \in VarNames, value \in VarValues : NextVar(Var(name, value))
    \/ \E error \in {"CannotParse", "RuntimeError"} : ParserRaises(error)
    \/ EndOfVars

\* ------------------------------------------------------------------------
\* _Spec.retarget.

MaxRetargets == 2

\* the map of the dataclass field names: a later spec overwrites an earlier
\* one; 0 stands for raise error.VariableNotSpecified
find_spec_idx_for_dataclass_field_name(specs, name) ==
    LET indices == {i \in 1..Len(specs) : specs[i].dataclass_field_name = name}
    IN  IF indices # {} THEN MaxOf(indices) ELSE 0

\* the lookup by dotenv name is tried first, the lookup by dataclass field
\* name second; 0 stands for the VariableNotSpecified of the first lookup
find_spec_by_dotenv_var_name_or_dataclass_field_name(specs, name) ==
    IF find_spec_idx_for_var_name(specs, name) # 0
    THEN find_spec_idx_for_var_name(specs, name)
    ELSE find_spec_idx_for_dataclass_field_name(specs, name)

\* the field specs after retarget(old_name, new_name): the new name is
\* stored as it is given and the maps are rebuilt from the specs; when the
\* lookup raises nothing is changed
retarget(specs, old_name, new_name) ==
    LET idx == find_spec_by_dotenv_var_name_or_dataclass_field_name(specs, old_name)
    IN  IF idx = 0 THEN specs
        ELSE [specs EXCEPT ![idx].dotenv_var_name = new_name]

\* the names the retarget calls are made with
RetargetOldNames == {<<97>>, <<65>>, <<98>>, <<66>>}
RetargetNewNames == {<<98>>, <<66>>}

\* spec.retarget(old_name, new_name), called before from_chars_iter, from
\* the retarget parameter of datadotenv(...) or by method chaining.  The
\* call is recorded with the field specs it found and the index it chose.
Retarget(old_name, new_name) ==
    /\ outcome = Running
    /\ seen = <<>>
    /\ Len(retargets) < MaxRetargets
    /\ var_specs' = retarget(var_specs, old_name, new_name)
    /\ retargets' = Append(retargets,
            [old_name |-> old_name, new_name |-> new_name, before |-> var_specs,
             idx |-> find_spec_by_dotenv_var_name_or_dataclass_field_name(
                        var_specs, old_name)])
    /\ UNCHANGED <<allow_incomplete, _resolved, dataclass_kwargs, outcome, seen>>
    /\ UNCHANGED <<parse_vars, previous, other>>
    /\ UNCHANGED <<_custom_validators_and_converters_specs, builder, timedelta_vars>>

\* ------------------------------------------------------------------------
\* from_chars_iter with its parser: the loop "for var in
\* parse.dotenv_from_chars_iter(chars)" resumes the generator only when it
\* asks for the next Var, and the generator runs until it yields, raises or
\* returns.

MaxCallLen == 5
MaxCalls == 2

\* the characters of the texts of the calls
CallAlphabet == {65, 61, 10, 32, 34, 39, 35}

\* a variant of AwaitsParser in which the generator runs ahead of the loop
AwaitsParser_RunsAhead == outcome = Running
\* the loop waits for the generator: every Var yielded so far was handled
AwaitsParser ==
    /\ outcome = Running
    /\ Len(seen) = Len(vars)

MaxOtherLen == 3

\* a call after the first is made again with the text of the first call; a
\* second call running at the same time has a text of its own
IsRepeat == previous # <<>> /\ (other.exists => ~other.repeat)
TextHasNext(char) ==
    IF previous = <<>> THEN Len(chars) < MaxCallLen
    ELSE IF IsRepeat
    THEN /\ Len(chars) < Len(previous[1].chars)
         /\ char = previous[1].chars[Len(chars) + 1]
    ELSE Len(chars) < MaxOtherLen
TextEnds ==
    IsRepeat =>
        /\ chars = previous[1].chars
        /\ previous[1].result # "running" \/ previous[1].pc = "last yield"

\* the generator reads the next character of the text
ParseChar(char) ==
    \/ BeforeName(char)
    \/ InUnquotedName(char)
    \/ BeforeVal(char)
    \/ InUnquotedVal(char)
    \/ InDoubleQuotedVal(char)
    \/ InSingleQuotedVal(char)
    \/ AfterVal(char)
    \/ InComment(char)
    \/ AfterName(char)
    \/ InQuotedName(char)
CallReads(char) ==
    /\ AwaitsParser
    /\ TextHasNext(char)
    /\ ParseChar(char)
\* the text is exhausted
CallEndOfInput ==
    /\ AwaitsParser
    /\ TextEnds
    /\ EndOfInput
\* the loop asks for the next Var and the generator, suspended at a yield,
\* goes on behind it
CallResumes ==
    /\ AwaitsParser
    /\ Resume

\* the loop body runs on the Var the generator yielded
TakeVar ==
    /\ Len(seen) < Len(vars)
    /\ NextVar(vars[Len(seen) + 1])
\* the generator raised: the error leaves from_chars_iter
TakeError ==
    /\ AwaitsParser
    /\ result \in {"CannotParse", "RuntimeError"}
    /\ ParserRaises(result)
\* the generator returned: the code after the loop runs
TakeEnd ==
    /\ AwaitsParser
    /\ result = "returned"
    /\ EndOfVars

\* the call has ended; what is kept of it
Ended == outcome # Running
EndedCall ==
    [chars |-> chars, vars |-> vars, result |-> result, pc |-> pc,
     outcome |-> outcome, _resolved |-> _resolved]

\* the next call of from_chars_iter on the same _Spec: chars is a new
\* iterator, the generator is a new generator, and _VarSpecResolveGroup
\* creates a new list of flags
NewCall_KeepsResolved ==
    /\ Ended
    /\ Len(previous) < MaxCalls - 1
    /\ previous' = Append(previous, EndedCall)
    /\ chars' = <<>>
    /\ state' = _DOTENV_STATE_BEFORE_NAME
    /\ name_chars' = <<>>
    /\ val_chars' = <<>>
    /\ vars' = <<>>
    /\ result' = "running"
    /\ pc' = "loop"
    /\ _resolved' = _resolved
    /\ dataclass_kwargs' = NoKwargs
    /\ outcome' = Running
    /\ seen' = <<>>
    /\ UNCHANGED <<var_specs, allow_incomplete, retargets, other>>
    /\ UNCHANGED <<_custom_validators_and_converters_specs, builder, timedelta_vars>>
NewCall ==
    /\ Ended
    /\ Len(previous) < MaxCalls - 1
    /\ previous' = Append(previous, EndedCall)
    /\ chars' = <<>>
    /\ state' = _DOTENV_STATE_BEFORE_NAME
    /\ name_chars' = <<>>
    /\ val_chars' = <<>>
    /\ vars' = <<>>
    /\ result' = "running"
    /\ pc' = "loop"
    /\ _resolved' = StartOfCall(var_specs)._resolved
    /\ dataclass_kwargs' = NoKwargs
    /\ outcome' = Running
    /\ seen' = <<>>
    /\ UNCHANGED <<var_specs, allow_incomplete, retargets, other>>
    /\ UNCHANGED <<_custom_validators_and_converters_specs, builder, timedelta_vars>>

\* ------------------------------------------------------------------------
\* Two calls of from_chars_iter at the same time.  Each call has its own
\* frame: the locals of from_chars_iter (the _VarSpecResolveGroup with its
\* flags, dataclass_kwargs), the locals of the generator (state,
\* name_chars, val_chars), the iterator over its text, and the _Spec it is
\* called on.  The variables hold the frame of the call that runs; other
\* holds the frame of the call that waits.

Frame(repeat) ==
    [exists |-> TRUE, repeat |-> repeat,
     chars |-> chars, state |-> state, name_chars |-> name_chars,
     val_chars |-> val_chars, vars |-> vars, result |-> result, pc |-> pc,
     var_specs |-> var_specs, allow_incomplete |-> allow_incomplete,
     _resolved |-> _resolved, dataclass_kwargs |-> dataclass_kwargs,
     outcome |-> outcome, seen |-> seen]

\* a second call begins, on a _Spec with these field specs, and waits
StartOther(specs, allow) ==
    /\ previous # <<>>
    /\ ~other.exists
    /\ other' = [exists |-> TRUE, repeat |-> FALSE,
                 chars |-> <<>>, state |-> _DOTENV_STATE_BEFORE_NAME,
                 name_chars |-> <<>>, val_chars |-> <<>>, vars |-> <<>>,
                 result |-> "running", pc |-> "loop",
                 var_specs |-> specs, allow_incomplete |-> allow,
                 _resolved |-> StartOfCall(specs)._resolved,
                 dataclass_kwargs |-> NoKwargs, outcome |-> Running,
                 seen |-> <<>>]
    /\ UNCHANGED <<parse_vars, resolve_vars, retargets, previous>>
    /\ UNCHANGED <<_custom_validators_and_converters_specs, builder, timedelta_vars>>

\* the call that runs is suspended and the call that waits goes on
Switch_SharesResolved ==
    /\ other.exists
    /\ other' = Frame(~other.repeat)
    /\ chars' = other.chars
    /\ state' = other.state
    /\ name_chars' = other.name_chars
    /\ val_chars' = other.val_chars
    /\ vars' = other.vars
    /\ result' = other.result
    /\ pc' = other.pc
    /\ var_specs' = other.var_specs
    /\ allow_incomplete' = other.allow_incomplete
    /\ _resolved' = _resolved
    /\ dataclass_kwargs' = other.dataclass_kwargs
    /\ outcome' = other.outcome
    /\ seen' = other.seen
    /\ UNCHANGED <<retargets, previous>>
    /\ UNCHANGED <<_custom_validators_and_converters_specs, builder, timedelta_vars>>
Switch ==
    /\ other.exists
    /\ other' = Frame(~other.repeat)
    /\ chars' = other.chars
    /\ state' = other.state
    /\ name_chars' = other.name_chars
    /\ val_chars' = other.val_chars
    /\ vars' = other.vars
    /\ result' = other.result
    /\ pc' = other.pc
    /\ var_specs' = other.var_specs
    /\ allow_incomplete' = other.allow_incomplete
    /\ _resolved' = other._resolved
    /\ dataclass_kwargs' = other.dataclass_kwargs
    /\ outcome' = other.outcome
    /\ seen' = other.seen
    /\ UNCHANGED <<retargets, previous>>
    /\ UNCHANGED <<_custom_validators_and_converters_specs, builder, timedelta_vars>>

\* ------------------------------------------------------------------------
\* The specifications: a call of from_chars_iter on a compiled schema, with
\* the parser seen as the stream of its Vars; and the parser alone, reading
\* characters.

\* no builder call was made, no call has ended, no second call runs
NoFrame == [exists |-> FALSE]
NoSession ==
    /\ _custom_validators_and_converters_specs = <<>>
    /\ builder = <<>>
    /\ retargets = <<>>
    /\ previous = <<>>
    /\ other = NoFrame

\* parse.timedelta is not called
NoTimedelta == td = [pc |-> "idle"]

NoCall ==
    /\ var_specs = <<>>
    /\ allow_incomplete = FALSE
    /\ _resolved = <<>>
    /\ dataclass_kwargs = NoKwargs
    /\ outcome = Running
    /\ seen = <<>>

Init == ResolveInit /\ ParseInit /\ NoSession /\ NoTimedelta
Next == ResolveNext
Spec == Init /\ [][Next]_all_vars

InitParse == ParseInit /\ NoCall /\ NoSession /\ NoTimedelta
SpecParse == InitParse /\ [][ParseNext]_all_vars

\* datadotenv(datacls, case=...) on a dataclass of str fields without
\* defaults, retarget calls on the _Spec, then a call of from_chars_iter
InitRetarget ==
    /\ \E n \in 1..MaxFields :
        \E names \in [1..n -> FieldNames] :
        \E case \in _Casing :
            /\ \A i, j \in 1..n : i # j => names[i] # names[j]
            /\ var_specs = Compile(names, [i \in 1..n |-> "str"],
                                   [i \in 1..n |-> MISSING], case)
    /\ allow_incomplete \in BOOLEAN
    /\ _resolved = StartOfCall(var_specs)._resolved
    /\ dataclass_kwargs = NoKwargs
    /\ outcome = Running
    /\ seen = <<>>
    /\ ParseInit
    /\ NoSession
    /\ NoTimedelta
NextRetarget ==
    \/ \E old_name \in RetargetOldNames, new_name \in RetargetNewNames :
            Retarget(old_name, new_name)
    \/ \E name \in VarNames : NextVar(Var(name, Str(<<49>>)))
    \/ EndOfVars
SpecRetarget == InitRetarget /\ [][NextRetarget]_all_vars

\* the calls of from_chars_iter on one _Spec, one after the other, each
\* with its parser, on a dataclass with the one field a
CallFieldNames == {<<97>>}
InitCalls ==
    /\ \E n \in 1..MaxFields :
        \E names \in [1..n -> CallFieldNames] :
        \E types \in [1..n -> FieldTypes] :
        \E defaults \in [1..n -> FieldDefaults] :
            /\ \A i, j \in 1..n : i # j => names[i] # names[j]
            /\ var_specs = Compile(names, types, defaults, "upper")
    /\ allow_incomplete \in BOOLEAN
    /\ _resolved = StartOfCall(var_specs)._resolved
    /\ dataclass_kwargs = NoKwargs
    /\ outcome = Running
    /\ seen = <<>>
    /\ ParseInit
    /\ NoSession
    /\ NoTimedelta
NextCalls ==
    \/ \E char \in CallAlphabet : CallReads(char)
    \/ CallEndOfInput
    \/ CallResumes
    \/ TakeVar
    \/ TakeError
    \/ TakeEnd
    \/ NewCall
SpecCalls == InitCalls /\ [][NextCalls]_all_vars

\* a call on a dataclass with the one field a, of each declared type, with
\* the values that the converters tell apart: unset, "", "true", "True",
\* "TRUE", "false", "False", "1", "x", " true"
ConvertTypes ==
    {"bool", "int", "str", "None", "NoneType", "complex"}
        \cup UnionTypes \cup OptionalTypes \cup TypingUnionTypes \cup LiteralTypes
ConvertValues ==
    {None, Str(<<>>), Str(<<116, 114, 117, 101>>), Str(<<84, 114, 117, 101>>),
     Str(<<84, 82, 85, 69>>), Str(<<102, 97, 108, 115, 101>>),
     Str(<<70, 97, 108, 115, 101>>), Str(<<49>>), Str(<<120>>),
     Str(<<32, 116, 114, 117, 101>>), Str(<<52, 50>>)}
InitConvert ==
    /\ \E type \in ConvertTypes :
            var_specs = Compile(<<(<<97>>)>>, <<type>>, <<MISSING>>, "upper")
    /\ allow_incomplete = FALSE
    /\ _resolved = StartOfCall(var_specs)._resolved
    /\ dataclass_kwargs = NoKwargs
    /\ outcome = Running
    /\ seen = <<>>
    /\ ParseInit
    /\ NoSession
    /\ NoTimedelta
NextConvert ==
    \/ \E value \in ConvertValues : NextVar(Var(<<65>>, value))
    \/ EndOfVars
SpecConvert == InitConvert /\ [][NextConvert]_all_vars

\* the lists and tuples: a dataclass of one field a that is a list or a
\* tuple, compiled with the separator "," or " " and with trimming on or
\* off; the values are unset and the strings of 1, x, the comma and the
\* space up to the length MaxSequenceLen
MaxSequenceLen == 3
SequenceAlphabet == {DIGIT_0 + 1, 120, COMMA, SP}
SequenceSeparators == {<<COMMA>>, <<SP>>}
SequenceValues ==
    {None} \cup {Str(s) : s \in UNION {[1..k -> SequenceAlphabet] :
                                            k \in 0..MaxSequenceLen}}
InitSequence ==
    /\ \E type \in ListTypes \cup TupleTypes,
          sequence_separator \in SequenceSeparators,
          trim_sequence_items \in BOOLEAN :
            var_specs = CompileWith(<<(<<97>>)>>, <<type>>, <<MISSING>>, "upper",
                                    sequence_separator, trim_sequence_items)
    /\ allow_incomplete = FALSE
    /\ _resolved = StartOfCall(var_specs)._resolved
    /\ dataclass_kwargs = NoKwargs
    /\ outcome = Running
    /\ seen = <<>>
    /\ ParseInit
    /\ NoSession
    /\ NoTimedelta
NextSequence ==
    \/ \E value \in SequenceValues : NextVar(Var(<<65>>, value))
    \/ EndOfVars
SpecSequence == InitSequence /\ [][NextSequence]_all_vars

\* ------------------------------------------------------------------------
\* _Spec.validate, _Spec.convert and _Spec.convert_type.

\* a variant of validate that puts the new validator before the ones that
\* are attached
validate_Prepends(specs, name, user_validate) ==
    LET idx == find_spec_by_dotenv_var_name_or_dataclass_field_name(specs, name)
    IN  IF idx = 0 THEN specs
        ELSE [specs EXCEPT ![idx].custom_validate = <<user_validate>> \o @]
\* the field specs after validate(name, user_validate): the validator is
\* put behind the ones that are attached to the field; when the lookup
\* raises nothing is changed
validate(specs, name, user_validate) ==
    LET idx == find_spec_by_dotenv_var_name_or_dataclass_field_name(specs, name)
    IN  IF idx = 0 THEN specs
        ELSE [specs EXCEPT ![idx].custom_validate = Append(@, user_validate)]

\* _Datadotenv.Convert without the name: what custom_convert closes over
Convert(convert_str_to_type, default_if_unset) ==
    [convert_str_to_type |-> convert_str_to_type,
     default_if_unset |-> default_if_unset]

\* a variant of convert that attaches the validator before it looks for a
\* converter that is attached
convert_ValidatesFirst(specs, name, convert_str_to_type, default_if_unset, user_validate) ==
    LET idx == find_spec_by_dotenv_var_name_or_dataclass_field_name(specs, name)
        validated == IF user_validate = NoValidate THEN specs
                     ELSE validate(specs, name, user_validate[1])
    IN  IF idx = 0 THEN [var_specs |-> specs, raised |-> "VariableNotSpecified"]
        ELSE IF specs[idx].custom_convert # NoConvert
        THEN [var_specs |-> validated, raised |-> "ValueError"]
        ELSE [var_specs |->
                [validated EXCEPT ![idx].custom_convert =
                    Convert(convert_str_to_type, default_if_unset)],
              raised |-> "none"]
\* convert(name, convert_str_to_type, default_if_unset, validate): the
\* field specs after the call and what the call raised.  user_validate is
\* the chain of no validator (validate=None) or of one.
convert(specs, name, convert_str_to_type, default_if_unset, user_validate) ==
    LET idx == find_spec_by_dotenv_var_name_or_dataclass_field_name(specs, name)
        converted == [specs EXCEPT ![idx].custom_convert =
                        Convert(convert_str_to_type, default_if_unset)]
    IN  IF idx = 0 THEN [var_specs |-> specs, raised |-> "VariableNotSpecified"]
        ELSE IF specs[idx].custom_convert # NoConvert
        THEN [var_specs |-> specs, raised |-> "ValueError"]
        ELSE [var_specs |-> IF user_validate = NoValidate THEN converted
                            ELSE validate(converted, name, user_validate[1]),
              raised |-> "none"]

\* the registered converters after convert_type(...)
convert_type(custom_validator_and_converter_specs, type_matcher, convert_str_to_type, default_if_unset, user_validate) ==
    Append(custom_validator_and_converter_specs,
           ConvertType(type_matcher, convert_str_to_type, default_if_unset,
                       user_validate))

\* most calls of validate, convert and convert_type on one _Spec
MaxBuilderCalls == 2
BuilderAwaits ==
    /\ outcome = Running
    /\ seen = <<>>
    /\ Len(builder) < MaxBuilderCalls

\* the arguments the calls are made with: the field by its dataclass name
\* a or its dotenv name A, a default or none, and validate=None or a
\* validator that returns a string or isinstance(value, int)
BuilderNames == {<<97>>, <<65>>}
BuilderDefaults == {Ellipsis, PyInt(0)}
BuilderValidates == {NoValidate, <<"message">>, <<"is_int">>}
BuilderMatchers == {"int", "complex", "check any"}

\* spec.validate(name, user_validate), called before from_chars_iter, by
\* method chaining or by the loop over the validate parameter of
\* datadotenv(...)
Validate(name, user_validate) ==
    /\ BuilderAwaits
    /\ var_specs' = validate(var_specs, name, user_validate)
    /\ builder' = Append(builder,
            [call |-> "validate", name |-> name, validate |-> <<user_validate>>,
             raised |-> IF find_spec_by_dotenv_var_name_or_dataclass_field_name(
                                var_specs, name) = 0
                        THEN "VariableNotSpecified" ELSE "none"])
    /\ UNCHANGED <<allow_incomplete, _resolved, dataclass_kwargs, outcome, seen>>
    /\ UNCHANGED <<parse_vars, retargets, previous, other>>
    /\ UNCHANGED <<_custom_validators_and_converters_specs, timedelta_vars>>

\* spec.convert(name, convert_str_to_type, default_if_unset=..., validate=...),
\* by method chaining or by the loop over the convert parameter
ConvertCall(name, convert_str_to_type, default_if_unset, user_validate) ==
    /\ BuilderAwaits
    /\ var_specs' = convert(var_specs, name, convert_str_to_type,
                            default_if_unset, user_validate).var_specs
    /\ builder' = Append(builder,
            [call |-> "convert", name |-> name,
             convert_str_to_type |-> convert_str_to_type,
             default_if_unset |-> default_if_unset,
             validate |-> user_validate,
             raised |-> convert(var_specs, name, convert_str_to_type,
                                default_if_unset, user_validate).raised])
    /\ UNCHANGED <<allow_incomplete, _resolved, dataclass_kwargs, outcome, seen>>
    /\ UNCHANGED <<parse_vars, retargets, previous, other>>
    /\ UNCHANGED <<_custom_validators_and_converters_specs, timedelta_vars>>

\* spec.convert_type(type_matcher, convert_str_to_type, ...), by method
\* chaining or by the loop over the convert_types parameter
ConvertTypeCall(type_matcher, convert_str_to_type, default_if_unset, user_validate) ==
    /\ BuilderAwaits
    /\ _custom_validators_and_converters_specs' =
            convert_type(_custom_validators_and_converters_specs, type_matcher,
                         convert_str_to_type, default_if_unset, user_validate)
    /\ builder' = Append(builder,
            [call |-> "convert_type", type_matcher |-> type_matcher,
             convert_str_to_type |-> convert_str_to_type,
             default_if_unset |-> default_if_unset,
             validate |-> user_validate,
             raised |-> "none"])
    /\ UNCHANGED <<resolve_vars, timedelta_vars>>
    /\ UNCHANGED <<parse_vars, retargets, previous, other>>

\* a dataclass of one field a, int or complex, without a default; the
\* builder calls and then the variables A that are unset, "1" or "x"
CustomTypes == {"int", "complex"}
CustomValues == {None, Str(<<DIGIT_0 + 1>>), Str(<<120>>)}
InitCustom ==
    /\ \E type \in CustomTypes :
            var_specs = Compile(<<(<<97>>)>>, <<type>>, <<MISSING>>, "upper")
    /\ allow_incomplete = FALSE
    /\ _resolved = StartOfCall(var_specs)._resolved
    /\ dataclass_kwargs = NoKwargs
    /\ outcome = Running
    /\ seen = <<>>
    /\ ParseInit
    /\ NoSession
    /\ NoTimedelta
NextCustom ==
    \/ \E name \in BuilderNames, user_validate \in UserValidators :
            Validate(name, user_validate)
    \/ \E name \in BuilderNames, convert_str_to_type \in UserConverters,
          default_if_unset \in BuilderDefaults, user_validate \in BuilderValidates :
            ConvertCall(name, convert_str_to_type, default_if_unset, user_validate)
    \/ \E type_matcher \in BuilderMatchers, convert_str_to_type \in UserConverters,
          default_if_unset \in BuilderDefaults, user_validate \in BuilderValidates :
            ConvertTypeCall(type_matcher, convert_str_to_type, default_if_unset,
                            user_validate)
    \/ \E value \in CustomValues : NextVar(Var(<<65>>, value))
    \/ EndOfVars
SpecCustom == InitCustom /\ [][NextCustom]_all_vars

\* ------------------------------------------------------------------------
\* Validators on fields of every kind of configuration.

\* One field a of a type with a built-in converter, compiled with each
\* setting of the file paths and of the sequences; validators that pass
\* (True, None) or fail (False) and converters are attached, then the
\* variable A arrives unset, as a number, a word, a list, the root
\* directory, ".." (the root directory again) or a file that does not
\* exist.
ValidatedTypes == {"int", "str", "list[int]", "Path"}
ValidatedValidators == {"accept", "nothing", "reject"}
ValidatedValues ==
    {None, Str(<<DIGIT_0 + 1>>), Str(<<120>>), Str(<<DIGIT_0 + 1, COMMA, DIGIT_0 + 1>>),
     Str(Root), Str(<<DOT, DOT>>), Str(Root \o <<120>>)}
InitValidated ==
    /\ \E type \in ValidatedTypes,
          file_paths_must_exist \in BOOLEAN,
          resolve_file_paths \in BOOLEAN,
          sequence_separator \in SequenceSeparators,
          trim_sequence_items \in BOOLEAN :
            var_specs = CompileAll(<<(<<97>>)>>, <<type>>, <<MISSING>>, "upper",
                                   file_paths_must_exist, resolve_file_paths,
                                   sequence_separator, trim_sequence_items)
    /\ allow_incomplete = FALSE
    /\ _resolved = StartOfCall(var_specs)._resolved
    /\ dataclass_kwargs = NoKwargs
    /\ outcome = Running
    /\ seen = <<>>
    /\ ParseInit
    /\ NoSession
    /\ NoTimedelta
NextValidated ==
    \/ \E name \in BuilderNames, user_validate \in ValidatedValidators :
            Validate(name, user_validate)
    \/ \E name \in BuilderNames, convert_str_to_type \in UserConverters,
          default_if_unset \in BuilderDefaults :
            ConvertCall(name, convert_str_to_type, default_if_unset, NoValidate)
    \/ \E value \in ValidatedValues : NextVar(Var(<<65>>, value))
    \/ EndOfVars
SpecValidated == InitValidated /\ [][NextValidated]_all_vars

\* ------------------------------------------------------------------------
\* parse.timedelta.

MINUS == 45
UPPER_E == 69
LOWER_D == 100
LOWER_E == 101
LOWER_H == 104
LOWER_M == 109
LOWER_S == 115
LOWER_U == 117
LOWER_W == 119
MU == 956

_TIMEDELTA_ORD_WEEKS == 1
_TIMEDELTA_ORD_DAYS == 2
_TIMEDELTA_ORD_HOURS == 3
_TIMEDELTA_ORD_MINUTES == 4
_TIMEDELTA_ORD_SECONDS == 5
_TIMEDELTA_ORD_MILLISECONDS == 6
_TIMEDELTA_ORD_MICROSECONDS == 7

\* the characters that the tokenizer puts into a number and into a unit;
\* the characters it skips are those of IsBlank
IsNumberChar(char) ==
    \/ (DIGIT_0 <= char /\ char <= DIGIT_9)
    \/ char = MINUS \/ char = DOT \/ char = LOWER_E \/ char = UPPER_E
IsUnitChar(char) ==
    \/ char = LOWER_S \/ char = LOWER_M \/ char = LOWER_H \/ char = LOWER_D
    \/ char = LOWER_W \/ char = LOWER_U \/ char = MU

\* float(token) and datetime.timedelta compute on numbers of two kinds: the
\* int of Python, of any size, and the float, an IEEE 754 double.
\*
\* A natural number of any size is the sequence of its limbs in base 2^15,
\* the lowest first: none for 0, and the highest is not 0.
LimbBase == 2^15
RECURSIVE Norm(_)
Norm(a) ==
    IF a = <<>> \/ a[Len(a)] # 0 THEN a ELSE Norm(SubSeq(a, 1, Len(a) - 1))
Limb(a, i) == IF i <= Len(a) THEN a[i] ELSE 0
RECURSIVE NatOf(_)
NatOf(n) == IF n = 0 THEN <<>> ELSE <<n % LimbBase>> \o NatOf(n \div LimbBase)
\* the number as an integer of the model, for a number below 2^31
RECURSIVE IntOf(_)
IntOf(a) == IF a = <<>> THEN 0 ELSE a[1] + LimbBase * IntOf(Tail(a))
RECURSIVE AddFrom(_, _, _, _)
AddFrom(a, b, i, carry) ==
    IF i > Len(a) /\ i > Len(b) THEN (IF carry = 0 THEN <<>> ELSE <<carry>>)
    ELSE LET sum == Limb(a, i) + Limb(b, i) + carry
         IN  <<sum % LimbBase>> \o AddFrom(a, b, i + 1, sum \div LimbBase)
AddN(a, b) == AddFrom(a, b, 1, 0)
\* a - b for a >= b
RECURSIVE SubFrom(_, _, _, _)
SubFrom(a, b, i, borrow) ==
    IF i > Len(a) THEN <<>>
    ELSE LET diff == Limb(a, i) - Limb(b, i) - borrow
         IN  <<diff % LimbBase>> \o SubFrom(a, b, i + 1, IF diff < 0 THEN 1 ELSE 0)
SubN(a, b) == Norm(SubFrom(a, b, 1, 0))
RECURSIVE LessFrom(_, _, _)
LessFrom(a, b, i) ==
    IF i = 0 THEN FALSE
    ELSE IF a[i] # b[i] THEN a[i] < b[i]
    ELSE LessFrom(a, b, i - 1)
LessN(a, b) == IF Len(a) # Len(b) THEN Len(a) < Len(b) ELSE LessFrom(a, b, Len(a))
\* a * n + carry and a divided by n, for n and carry below 2^15
RECURSIVE MulFrom(_, _, _, _)
MulFrom(a, n, i, carry) ==
    IF i > Len(a) THEN (IF carry = 0 THEN <<>> ELSE <<carry>>)
    ELSE LET product == a[i] * n + carry
         IN  <<product % LimbBase>> \o MulFrom(a, n, i + 1, product \div LimbBase)
MulSmall(a, n) == IF n = 0 THEN <<>> ELSE MulFrom(a, n, 1, 0)
\* the limbs of the quotient from the highest down, then the remainder
RECURSIVE DivFrom(_, _, _, _)
DivFrom(a, n, i, r) ==
    IF i = 0 THEN <<r>>
    ELSE LET dividend == r * LimbBase + a[i]
         IN  <<dividend \div n>> \o DivFrom(a, n, i - 1, dividend % n)
DivSmall(a, n) ==
    LET d == DivFrom(a, n, Len(a), 0)
    IN  [q |-> Norm([i \in 1..Len(a) |-> d[Len(a) + 1 - i]]), r |-> d[Len(a) + 1]]
ShiftLimbs(a, k) == IF a = <<>> THEN <<>> ELSE [i \in 1..k |-> 0] \o a
RECURSIVE MulN(_, _)
MulN(a, b) ==
    IF a = <<>> \/ b = <<>> THEN <<>>
    ELSE AddN(MulSmall(a, b[1]), ShiftLimbs(MulN(a, Tail(b)), 1))
\* a * 2^k; a divided by 2^k, with low = TRUE when a bit was shifted out;
\* a modulo 2^k
ShiftLeft(a, k) == ShiftLimbs(MulSmall(a, 2^(k % 15)), k \div 15)
ShiftRight(a, k) ==
    LET limbs == IF k \div 15 < Len(a) THEN k \div 15 ELSE Len(a)
        d == DivSmall(SubSeq(a, limbs + 1, Len(a)), 2^(k % 15))
    IN  [q |-> d.q, low |-> d.r # 0 \/ \E i \in 1..limbs : a[i] # 0]
LowBits(a, k) ==
    Norm([i \in 1..(IF k \div 15 < Len(a) THEN k \div 15 + 1 ELSE Len(a)) |->
            IF i = k \div 15 + 1 THEN a[i] % 2^(k % 15) ELSE a[i]])
RECURSIVE BitsOf(_)
BitsOf(n) == IF n = 0 THEN 0 ELSE 1 + BitsOf(n \div 2)
BitLen(a) == IF a = <<>> THEN 0 ELSE 15 * (Len(a) - 1) + BitsOf(a[Len(a)])
IsOddN(a) == a # <<>> /\ a[1] % 2 = 1
\* a * 10^k; a divided by 10^k, with low = TRUE when the division left a
\* remainder
RECURSIVE TimesPow10(_, _)
TimesPow10(a, k) ==
    IF k = 0 \/ a = <<>> THEN a
    ELSE IF k >= 4 THEN TimesPow10(MulSmall(a, 10000), k - 4)
    ELSE TimesPow10(MulSmall(a, 10), k - 1)
RECURSIVE DivPow10(_, _)
DivPow10(a, k) ==
    IF k = 0 \/ a = <<>> THEN [q |-> a, low |-> FALSE]
    ELSE LET d == DivSmall(a, IF k >= 4 THEN 10000 ELSE 10)
             rest == DivPow10(d.q, IF k >= 4 THEN k - 4 ELSE k - 1)
         IN  [q |-> rest.q, low |-> rest.low \/ d.r # 0]

\* An int of any size: the sign and the magnitude.
BigInt(neg, mag) == [neg |-> neg /\ mag # <<>>, mag |-> mag]
BigIntOf(n) == IF n < 0 THEN BigInt(TRUE, NatOf(0 - n)) ELSE BigInt(FALSE, NatOf(n))
AddInt(a, b) ==
    IF a.neg = b.neg THEN BigInt(a.neg, AddN(a.mag, b.mag))
    ELSE IF LessN(a.mag, b.mag) THEN BigInt(b.neg, SubN(b.mag, a.mag))
    ELSE BigInt(a.neg, SubN(a.mag, b.mag))
\* divmod(a, n) for 0 < n < 2^15: the quotient is rounded down
DivMod(a, n) ==
    LET d == DivSmall(a.mag, n)
    IN  IF ~a.neg \/ d.r = 0 THEN [q |-> BigInt(a.neg, d.q), r |-> d.r]
        ELSE [q |-> BigInt(TRUE, AddN(d.q, <<1>>)), r |-> n - d.r]

\* A float is (-1)^neg * m * 2^e with m odd and below 2^53 and e from -1074
\* on, or m = 0 and e = 0, or an infinity.
PyFloat(neg, inf, m, e) ==
    [ok |-> TRUE, t |-> "float", neg |-> neg, inf |-> inf, m |-> m, e |-> e]
Infinity(neg) == PyFloat(neg, TRUE, <<>>, 0)
FloatZero(neg) == PyFloat(neg, FALSE, <<>>, 0)
RECURSIVE OddFloat(_, _, _)
OddFloat(neg, m, e) ==
    IF m[1] = 0 THEN OddFloat(neg, Tail(m), e + 15)
    ELSE IF m[1] % 2 = 0 THEN OddFloat(neg, DivSmall(m, 2).q, e + 1)
    ELSE PyFloat(neg, FALSE, m, e)
\* the float nearest to (-1)^neg * m * 2^e, or to a number just above it in
\* magnitude when more = TRUE (a number that has bits below m * 2^e): the
\* mantissa keeps 53 bits, fewer below 2^-1022, a half goes to the even
\* mantissa, and from 2^1024 on the float is an infinity
Nearest(neg, m, e, more) ==
    LET exp == IF e + BitLen(m) - 53 > 0 - 1074 THEN e + BitLen(m) - 53 ELSE 0 - 1074
        shifted == ShiftRight(m, exp - e - 1)
        kept == DivSmall(shifted.q, 2).q
        up == IsOddN(shifted.q) /\ (shifted.low \/ more \/ IsOddN(kept))
        rounded == IF exp <= e THEN m ELSE IF up THEN AddN(kept, <<1>>) ELSE kept
        exponent == IF exp <= e THEN e ELSE exp
    IN  IF rounded = <<>> THEN FloatZero(neg)
        ELSE IF exponent + BitLen(rounded) > 1024 THEN Infinity(neg)
        ELSE OddFloat(neg, rounded, exponent)
\* a + b and a * n for floats a and b that are no infinity and the natural
\* number n, each rounded once
AddFloat(a, b) ==
    IF a.m = <<>> THEN (IF b.m = <<>> THEN FloatZero(a.neg /\ b.neg) ELSE b)
    ELSE IF b.m = <<>> THEN a
    ELSE LET e == IF a.e < b.e THEN a.e ELSE b.e
             sum == AddInt(BigInt(a.neg, ShiftLeft(a.m, a.e - e)),
                           BigInt(b.neg, ShiftLeft(b.m, b.e - e)))
         IN  Nearest(sum.neg, sum.mag, e, FALSE)
TimesFloat(a, n) == Nearest(a.neg, MulN(a.m, n), a.e, FALSE)
\* modf(a): the whole part of a, as a natural number, and what is left, as
\* a float with the sign of a
modf(a) ==
    IF a.e >= 0 THEN [intpart |-> ShiftLeft(a.m, a.e), fracpart |-> FloatZero(a.neg)]
    ELSE [intpart |-> ShiftRight(a.m, 0 - a.e).q,
          fracpart |-> PyFloat(a.neg, FALSE, LowBits(a.m, 0 - a.e), a.e)]

\* float(token) for a token of number characters: an optional "-", digits
\* with at most one ".", and an optional exponent, "e" or "E" with an
\* optional "-" and digits.  DecimalOfToken is the number as it is written:
\* neg, the digits of the mantissa and the power of ten of the last of
\* them; ok = FALSE is ValueError.
AllDigits(t) == \A i \in 1..Len(t) : DIGIT_0 <= t[i] /\ t[i] <= DIGIT_9
\* the exponent as a number; from 999999999 on every float is zero or
\* infinite
RECURSIVE ExponentValue(_)
ExponentValue(d) ==
    IF d = <<>> THEN 0
    ELSE LET high == ExponentValue(SubSeq(d, 1, Len(d) - 1))
         IN  IF high > 99999999 THEN 999999999
             ELSE 10 * high + (d[Len(d)] - DIGIT_0)
DecimalOfToken(token) ==
    LET neg == Len(token) > 0 /\ token[1] = MINUS
        body == IF neg THEN Tail(token) ELSE token
        e == FirstOf(body, {LOWER_E, UPPER_E})
        mantissa == IF e = 0 THEN body ELSE SubSeq(body, 1, e - 1)
        exponent == IF e = 0 THEN <<>> ELSE SubSeq(body, e + 1, Len(body))
        exp_neg == Len(exponent) > 0 /\ exponent[1] = MINUS
        exp_digits == IF exp_neg THEN Tail(exponent) ELSE exponent
        dot == FirstOf(mantissa, {DOT})
        int_digits == IF dot = 0 THEN mantissa ELSE SubSeq(mantissa, 1, dot - 1)
        frac_digits ==
            IF dot = 0 THEN <<>> ELSE SubSeq(mantissa, dot + 1, Len(mantissa))
        wellformed ==
            /\ AllDigits(int_digits)
            /\ AllDigits(frac_digits)
            /\ Len(int_digits) + Len(frac_digits) > 0
            /\ e # 0 => (exp_digits # <<>> /\ AllDigits(exp_digits))
        power == IF exp_neg THEN 0 - ExponentValue(exp_digits)
                 ELSE ExponentValue(exp_digits)
    IN  IF ~wellformed THEN [ok |-> FALSE]
        ELSE [ok |-> TRUE, neg |-> neg,
              digits |-> [i \in 1..(Len(int_digits) + Len(frac_digits)) |->
                            (int_digits \o frac_digits)[i] - DIGIT_0],
              exp |-> power - Len(frac_digits)]
RECURSIVE Significant(_)
Significant(digits) ==
    IF digits # <<>> /\ digits[1] = 0 THEN Significant(Tail(digits)) ELSE digits
RECURSIVE NatOfDigits(_)
NatOfDigits(digits) ==
    IF digits = <<>> THEN <<>>
    ELSE MulFrom(NatOfDigits(SubSeq(digits, 1, Len(digits) - 1)), 10, 1,
                 digits[Len(digits)])
\* The float is the double nearest to the decimal.  A decimal of 10^310 or
\* more is an infinity and one below 10^-330 is zero; a decimal with places
\* after the point is divided with 64 bits to spare, so that the quotient
\* and the remainder decide the rounding.
float(token) ==
    LET decimal == DecimalOfToken(token)
        mantissa == NatOfDigits(decimal.digits)
        places == Len(Significant(decimal.digits)) + decimal.exp
    IN  IF ~decimal.ok THEN [ok |-> FALSE]
        ELSE IF mantissa = <<>> THEN FloatZero(decimal.neg)
        ELSE IF places > 310 THEN Infinity(decimal.neg)
        ELSE IF places < 0 - 330 THEN FloatZero(decimal.neg)
        ELSE IF decimal.exp >= 0
        THEN Nearest(decimal.neg, TimesPow10(mantissa, decimal.exp), 0, FALSE)
        ELSE LET bits == 64 + 4 * (0 - decimal.exp)
                 quotient == DivPow10(ShiftLeft(mantissa, bits), 0 - decimal.exp)
             IN  Nearest(decimal.neg, quotient.q, 0 - bits, quotient.low)
\* the int 0 that a unit has when the input does not give it
PyZero == PyInt(0)

\* datetime.timedelta(weeks=..., ..., microseconds=...), as CPython computes
\* it: the arguments are summed in microseconds from the microseconds to
\* the weeks.  x is the int of the whole microseconds so far and
\* leftover_us the float of what is left below the microsecond; a float
\* that is an infinity has no int.
PyTimedelta(days, seconds, microseconds) ==
    [t |-> "timedelta", days |-> days, seconds |-> seconds,
     microseconds |-> microseconds]
TimedeltaUnits ==
    <<"weeks", "days", "hours", "minutes", "seconds", "milliseconds", "microseconds">>
\* the microseconds of one unit
us_per(unit) ==
    CASE unit = "microseconds" -> NatOf(1)
      [] unit = "milliseconds" -> NatOf(1000)
      [] unit = "seconds" -> NatOf(1000000)
      [] unit = "minutes" -> MulN(NatOf(60), NatOf(1000000))
      [] unit = "hours" -> MulN(NatOf(3600), NatOf(1000000))
      [] unit = "days" -> MulN(NatOf(86400), NatOf(1000000))
      [] unit = "weeks" -> MulN(NatOf(604800), NatOf(1000000))
accum(sofar, num, factor) ==
    IF sofar.overflow THEN sofar
    ELSE IF num.t = "int"
    THEN [sofar EXCEPT !.x = AddInt(@, BigInt(num.v < 0,
                                              MulN(BigIntOf(num.v).mag, factor)))]
    ELSE IF num.inf THEN [sofar EXCEPT !.overflow = TRUE]
    ELSE LET whole == modf(num)
             sum == AddInt(sofar.x, BigInt(num.neg, MulN(whole.intpart, factor)))
             part == modf(TimesFloat(whole.fracpart, factor))
         IN  IF whole.fracpart.m = <<>> THEN [sofar EXCEPT !.x = sum]
             ELSE [sofar EXCEPT !.x = AddInt(sum, BigInt(num.neg, part.intpart)),
                                !.leftover_us = AddFloat(@, part.fracpart)]
RECURSIVE accum_units(_, _)
accum_units(kwargs, n) ==
    IF n > Len(TimedeltaUnits)
    THEN [x |-> BigIntOf(0), leftover_us |-> FloatZero(FALSE), overflow |-> FALSE]
    ELSE accum(accum_units(kwargs, n + 1), kwargs[TimedeltaUnits[n]],
               us_per(TimedeltaUnits[n]))
\* round(leftover_us), where a half goes away from zero, but to the whole
\* number that makes x even when leftover_us is a whole number and a half
whole_us(x, leftover_us) ==
    LET parts == modf(leftover_us)
        below == IntOf(parts.intpart)
        frac == parts.fracpart
        half == frac.m = <<1>> /\ frac.e = 0 - 1
        up == IF half THEN (below % 2 = 1) # IsOddN(x.mag)
              ELSE frac.m # <<>> /\ frac.e + BitLen(frac.m) = 0
    IN  BigInt(leftover_us.neg, NatOf(IF up THEN below + 1 ELSE below))
\* the timedelta of x microseconds: days, seconds and microseconds by two
\* divmod; more than 999999999 days either way is OverflowError
microseconds_to_delta_ex(x) ==
    LET thousands == DivMod(x, 1000)
        s == DivMod(thousands.q, 1000)
        hundreds == DivMod(s.q, 100)
        d == DivMod(hundreds.q, 864)
    IN  IF LessN(NatOf(999999999), d.q.mag) THEN Raise("OverflowError")
        ELSE Value(PyTimedelta(IF d.q.neg THEN 0 - IntOf(d.q.mag) ELSE IntOf(d.q.mag),
                               d.r * 100 + hundreds.r,
                               s.r * 1000 + thousands.r))
datetime_timedelta(kwargs) ==
    LET sum == accum_units(kwargs, 1)
    IN  IF sum.overflow THEN Raise("OverflowError")
        ELSE microseconds_to_delta_ex(AddInt(sum.x, whole_us(sum.x, sum.leftover_us)))

\* a variant of UnitOf that takes "m" for the seconds
UnitOf_MinutesAsSeconds(token) ==
    CASE token = <<LOWER_S>> -> [name |-> "seconds", ord |-> _TIMEDELTA_ORD_SECONDS]
      [] token = <<LOWER_M>> -> [name |-> "seconds", ord |-> _TIMEDELTA_ORD_MINUTES]
      [] token = <<LOWER_H>> -> [name |-> "hours", ord |-> _TIMEDELTA_ORD_HOURS]
      [] token = <<LOWER_D>> -> [name |-> "days", ord |-> _TIMEDELTA_ORD_DAYS]
      [] token = <<LOWER_W>> -> [name |-> "weeks", ord |-> _TIMEDELTA_ORD_WEEKS]
      [] token = <<LOWER_M, LOWER_S>> ->
            [name |-> "milliseconds", ord |-> _TIMEDELTA_ORD_MILLISECONDS]
      [] token = <<LOWER_U, LOWER_S>> \/ token = <<MU, LOWER_S>> ->
            [name |-> "microseconds", ord |-> _TIMEDELTA_ORD_MICROSECONDS]
      [] OTHER -> [name |-> "", ord |-> 0]

\* the token of a unit: its keyword of datetime.timedelta and its place in
\* the order of the units; ord = 0 is a token that is no unit
UnitOf(token) ==
    CASE token = <<LOWER_S>> -> [name |-> "seconds", ord |-> _TIMEDELTA_ORD_SECONDS]
      [] token = <<LOWER_M>> -> [name |-> "minutes", ord |-> _TIMEDELTA_ORD_MINUTES]
      [] token = <<LOWER_H>> -> [name |-> "hours", ord |-> _TIMEDELTA_ORD_HOURS]
      [] token = <<LOWER_D>> -> [name |-> "days", ord |-> _TIMEDELTA_ORD_DAYS]
      [] token = <<LOWER_W>> -> [name |-> "weeks", ord |-> _TIMEDELTA_ORD_WEEKS]
      [] token = <<LOWER_M, LOWER_S>> ->
            [name |-> "milliseconds", ord |-> _TIMEDELTA_ORD_MILLISECONDS]
      [] token = <<LOWER_U, LOWER_S>> \/ token = <<MU, LOWER_S>> ->
            [name |-> "microseconds", ord |-> _TIMEDELTA_ORD_MICROSECONDS]
      [] OTHER -> [name |-> "", ord |-> 0]

\* the two errors of parse.timedelta
blank_err == RaiseMessage("CannotParse", "blank", <<>>)
default_err(s) == RaiseMessage("CannotParse", "invalid", s)

\* a variant of parse_tokens that takes a unit a second time
RECURSIVE parse_tokens_AllowsRepeat(_, _, _, _, _, _)
parse_tokens_AllowsRepeat(s, tokens, i, ord, num, kwargs) ==
    IF i > Len(tokens) THEN datetime_timedelta(kwargs)
    ELSE IF num = None
    THEN IF float(tokens[i]).ok
         THEN parse_tokens_AllowsRepeat(s, tokens, i + 1, ord, float(tokens[i]), kwargs)
         ELSE default_err(s)
    ELSE LET unit == UnitOf(tokens[i])
         IN  IF unit.ord = 0 \/ ord > unit.ord THEN default_err(s)
             ELSE parse_tokens_AllowsRepeat(s, tokens, i + 1, unit.ord, None,
                                            [kwargs EXCEPT ![unit.name] = num])

\* the loop over the tokens, from the token at index i on, and the return
\* statement after it: kwargs are weeks, ..., microseconds so far
RECURSIVE parse_tokens(_, _, _, _, _, _)
parse_tokens(s, tokens, i, ord, num, kwargs) ==
    IF i > Len(tokens) THEN datetime_timedelta(kwargs)
    ELSE IF num = None
    THEN IF float(tokens[i]).ok
         THEN parse_tokens(s, tokens, i + 1, ord, float(tokens[i]), kwargs)
         ELSE default_err(s)
    ELSE LET unit == UnitOf(tokens[i])
         IN  IF unit.ord = 0 \/ ord >= unit.ord THEN default_err(s)
             ELSE parse_tokens(s, tokens, i + 1, unit.ord, None,
                               [kwargs EXCEPT ![unit.name] = num])
NoKwargsOfTimedelta == [unit \in {TimedeltaUnits[n] : n \in 1..Len(TimedeltaUnits)} |-> PyZero]

\* The locals of a call: pc is "first" before the first next(chars), then
\* the inner loop that the call is in or about to enter
\* ("leading", "number", "unit", "trailing"), "comma" at the test for a
\* comma, "tokens" after the outer loop and "done" when the call has
\* returned or raised.
Pending == [pending |-> TRUE]
Start(s) ==
    [s |-> s, chars |-> 0, char |-> 0, tokens |-> <<>>, token_chars |-> <<>>,
     last_was_comma |-> FALSE, pc |-> "first", result |-> Pending]
StopIteration(f) == f.chars = Len(f.s)
\* a variant of next that returns the character without taking it
next_Repeats(f) == [f EXCEPT !.char = f.s[f.chars + 1]]
next(f) == [f EXCEPT !.chars = @ + 1, !.char = f.s[f.chars + 1]]
raise(f, err) == [f EXCEPT !.pc = "done", !.result = err]

\* char = next(chars) before the loop
first_char(f) ==
    IF StopIteration(f) THEN raise(f, blank_err)
    ELSE [next(f) EXCEPT !.pc = "leading"]
\* one test of the loop that skips leading whitespace, and its body
skip_leading_whitespace(f) ==
    IF IsBlank(f.char)
    THEN IF StopIteration(f) THEN [f EXCEPT !.pc = "tokens"] ELSE next(f)
    ELSE [f EXCEPT !.pc = "number"]
\* one test of the loop that puts the number in a token, its body, and
\* the statements after the loop
put_number_in_token(f) ==
    IF IsNumberChar(f.char)
    THEN IF StopIteration(f)
         THEN [f EXCEPT !.tokens = Append(@, Append(f.token_chars, f.char)),
                        !.token_chars = <<>>, !.pc = "tokens"]
         ELSE [next(f) EXCEPT !.token_chars = Append(@, f.char)]
    ELSE IF f.token_chars = <<>> THEN raise(f, default_err(f.s))
    ELSE [f EXCEPT !.tokens = Append(@, f.token_chars), !.token_chars = <<>>,
                   !.pc = "unit"]
\* the same for the unit; last_was_comma = False follows
put_unit_in_token(f) ==
    IF IsUnitChar(f.char)
    THEN IF StopIteration(f)
         THEN [f EXCEPT !.tokens = Append(@, Append(f.token_chars, f.char)),
                        !.token_chars = <<>>, !.pc = "tokens"]
         ELSE [next(f) EXCEPT !.token_chars = Append(@, f.char)]
    ELSE IF f.token_chars = <<>> THEN raise(f, default_err(f.s))
    ELSE [f EXCEPT !.tokens = Append(@, f.token_chars), !.token_chars = <<>>,
                   !.last_was_comma = FALSE, !.pc = "trailing"]
skip_trailing_whitespace(f) ==
    IF IsBlank(f.char)
    THEN IF StopIteration(f) THEN [f EXCEPT !.pc = "tokens"] ELSE next(f)
    ELSE [f EXCEPT !.pc = "comma"]
\* the test for a comma, the next(chars) after it, and the jump to the top
\* of the outer loop
skip_trailing_comma(f) ==
    IF f.char = COMMA
    THEN IF StopIteration(f)
         THEN [f EXCEPT !.last_was_comma = TRUE, !.pc = "tokens"]
         ELSE [next(f) EXCEPT !.pc = "leading"]
    ELSE [f EXCEPT !.pc = "leading"]
\* the statements after the outer loop
after_loop(f) ==
    [f EXCEPT !.pc = "done",
              !.result = IF f.tokens = <<>> THEN blank_err
                         ELSE IF f.last_was_comma THEN default_err(f.s)
                         ELSE parse_tokens(f.s, f.tokens, 1, 0, None,
                                           NoKwargsOfTimedelta)]

\* the call from the locals f to its end
timedelta_step(f) ==
    CASE f.pc = "first" -> first_char(f)
      [] f.pc = "leading" -> skip_leading_whitespace(f)
      [] f.pc = "number" -> put_number_in_token(f)
      [] f.pc = "unit" -> put_unit_in_token(f)
      [] f.pc = "trailing" -> skip_trailing_whitespace(f)
      [] f.pc = "comma" -> skip_trailing_comma(f)
      [] f.pc = "tokens" -> after_loop(f)
RECURSIVE timedelta_run(_)
timedelta_run(f) == IF f.pc = "done" THEN f ELSE timedelta_run(timedelta_step(f))
\* parse.timedelta(s): the timedelta, CannotParse or OverflowError
timedelta(s) == timedelta_run(Start(s)).result

\* the generator is not called
NoParse ==
    /\ chars = <<>>
    /\ state = _DOTENV_STATE_BEFORE_NAME
    /\ name_chars = <<>>
    /\ val_chars = <<>>
    /\ vars = <<>>
    /\ result = "idle"
    /\ pc = "loop"

\* parse.timedelta is about to be called
CallOfTimedelta == td = [pc |-> "call"]

\* One step of a call of parse.timedelta: the call with the string s up to
\* the first next(chars), a test of one of its loops with the next(chars) of
\* its body, or the statements between two loops.
FirstChar(s) ==
    /\ td.pc = "call"
    /\ td' = first_char(Start(s))
    /\ UNCHANGED <<parse_vars, resolve_vars, session_vars>>
SkipLeadingWhitespace ==
    /\ td.pc = "leading"
    /\ td' = skip_leading_whitespace(td)
    /\ UNCHANGED <<parse_vars, resolve_vars, session_vars>>
PutNumberInToken ==
    /\ td.pc = "number"
    /\ td' = put_number_in_token(td)
    /\ UNCHANGED <<parse_vars, resolve_vars, session_vars>>
PutUnitInToken ==
    /\ td.pc = "unit"
    /\ td' = put_unit_in_token(td)
    /\ UNCHANGED <<parse_vars, resolve_vars, session_vars>>
SkipTrailingWhitespace ==
    /\ td.pc = "trailing"
    /\ td' = skip_trailing_whitespace(td)
    /\ UNCHANGED <<parse_vars, resolve_vars, session_vars>>
SkipTrailingComma ==
    /\ td.pc = "comma"
    /\ td' = skip_trailing_comma(td)
    /\ UNCHANGED <<parse_vars, resolve_vars, session_vars>>
ParseTokens ==
    /\ td.pc = "tokens"
    /\ td' = after_loop(td)
    /\ UNCHANGED <<parse_vars, resolve_vars, session_vars>>

\* the inputs of parse.timedelta: the strings of at most MaxDurationLen
\* characters of the digits 1 and 2, "-", ".", the units h, m and s (and so
\* ms), the space and the comma
MaxDurationLen == 5
DurationAlphabet ==
    {DIGIT_0 + 1, DIGIT_0 + 2, MINUS, DOT, LOWER_H, LOWER_M, LOWER_S, SP, COMMA}
Durations == UNION {[1..n -> DurationAlphabet] : n \in 0..MaxDurationLen}
InitTimedelta ==
    /\ NoParse
    /\ NoCall
    /\ NoSession
    /\ CallOfTimedelta
\* the steps of the outer loop of a call that has been made
Tokenize ==
    \/ SkipLeadingWhitespace
    \/ PutNumberInToken
    \/ PutUnitInToken
    \/ SkipTrailingWhitespace
    \/ SkipTrailingComma
NextTimedelta ==
    \/ \E s \in (IF td.pc = "call" THEN Durations ELSE {}) : FirstChar(s)
    \/ Tokenize
    \/ ParseTokens
SpecTimedelta == InitTimedelta /\ [][NextTimedelta]_all_vars

\* A run of the generator or a call of parse.timedelta; the generator that
\* runs, with a consumer that asks for the next Var after each Var, and the
\* outer loop of the call that was made take their steps for as long as
\* they have one to take.
\* The generator is given at most MaxTerminatesLen characters.
MaxTerminatesLen == 4
ParseShort == ParseNext /\ Len(chars') <= MaxTerminatesLen
InitTerminates == InitParse \/ InitTimedelta
NextTerminates == ParseShort \/ NextTimedelta
SpecTerminates ==
    /\ InitTerminates
    /\ [][NextTerminates]_all_vars
    /\ WF_all_vars(ParseShort)
    /\ WF_all_vars(Tokenize)

\* a call alone, then the same call again while a second call runs, on the
\* same _Spec or on another one
InterleavedAlphabet == {65, 61, 10, 34}
InterleavedSpecs ==
    {Compile(<<name>>, <<type>>, <<MISSING>>, "upper") :
        name \in CallFieldNames, type \in FieldTypes}
InitInterleaved ==
    /\ var_specs \in InterleavedSpecs
    /\ allow_incomplete \in BOOLEAN
    /\ _resolved = StartOfCall(var_specs)._resolved
    /\ dataclass_kwargs = NoKwargs
    /\ outcome = Running
    /\ seen = <<>>
    /\ ParseInit
    /\ NoSession
    /\ NoTimedelta
NextInterleaved ==
    \/ \E char \in InterleavedAlphabet : CallReads(char)
    \/ CallEndOfInput
    \/ CallResumes
    \/ TakeVar
    \/ TakeError
    \/ TakeEnd
    \/ NewCall
    \/ \E specs \in InterleavedSpecs, allow \in BOOLEAN : StartOther(specs, allow)
    \/ Switch
SpecInterleaved == InitInterleaved /\ [][NextInterleaved]_all_vars

\* ------------------------------------------------------------------------
\* Vocabulary of the properties of the parser.  It is written from the
\* dotenv format, with sets of code points, and uses none of the parser's
\* character tests.

Letters == (65..90) \cup (97..122)
Digits == 48..57
NameChars == Letters \cup Digits \cup {95}
SpaceTab == {32, 9}
Blanks == {32, 9, 11}
LineTerminators == {10, 13, 12}
Quotes == {34, 39}
\* characters of an unquoted value: no whitespace, no line terminator
ValueChars == (0..127) \ (Blanks \cup LineTerminators)

\* the first index from i on whose character is not in S (Len(s) + 1 if none)
Span(s, i, S) ==
    CHOOSE j \in i..(Len(s) + 1) :
        /\ \A k \in i..(j - 1) : s[k] \in S
        /\ j = Len(s) + 1 \/ s[j] \notin S

\* the last index up to i whose character is not in S (0 if none)
SpanBack(s, i, S) ==
    CHOOSE j \in 0..i :
        /\ \A k \in (j + 1)..i : s[k] \in S
        /\ j = 0 \/ s[j] \notin S

\* the character read by a step that reads one
CharRead == chars'[Len(chars')]
ReadStep == Len(chars') = Len(chars) + 1
\* a step at which the generator finds the input at its end: it ends, or
\* it yields after the loop
EndStep ==
    /\ chars' = chars
    /\ result = "running"
    /\ pc \in {"loop", "escape"}
    /\ result' # "running" \/ pc' = "last yield"
\* a step at which the generator goes on behind the yield it is suspended at
ResumeStep ==
    /\ result = "running"
    /\ pc \in {"yield", "last yield"}
    /\ pc' # pc \/ result' # result
\* a step that yields a Var, and the Var
YieldStep == Len(vars') = Len(vars) + 1
Yielded == vars'[Len(vars')]

\* s is  blanks NAME blanks = blanks value blanks [terminator]
SimpleLineName(s) ==
    LET a == Span(s, 1, SpaceTab) IN SubSeq(s, a, Span(s, a, NameChars) - 1)
SimpleLineValue(s) ==
    LET a == Span(s, 1, SpaceTab)
        b == Span(s, a, NameChars)
        c == Span(s, b, SpaceTab)
        d == Span(s, c + 1, SpaceTab)
    IN  SubSeq(s, d, Span(s, d, ValueChars) - 1)
IsSimpleLine(s) ==
    LET a == Span(s, 1, SpaceTab)
        b == Span(s, a, NameChars)
        c == Span(s, b, SpaceTab)
    IN  /\ b > a
        /\ s[a] \in Letters
        /\ c <= Len(s)
        /\ s[c] = 61
        /\ LET d == Span(s, c + 1, SpaceTab)
               e == Span(s, d, ValueChars)
               f == Span(s, e, SpaceTab)
           IN  /\ e > d
               /\ s[d] \notin Quotes \cup {35}
               /\ \/ f = Len(s) + 1
                  \/ f = Len(s) /\ s[f] \in LineTerminators

\* s is the beginning of a simple line
IsSimpleLinePrefix(s) ==
    LET a == Span(s, 1, SpaceTab)
    IN  \/ a > Len(s)
        \/ /\ s[a] \in Letters
           /\ LET c == Span(s, Span(s, a, NameChars), SpaceTab)
              IN  \/ c > Len(s)
                  \/ /\ s[c] = 61
                     /\ LET d == Span(s, c + 1, SpaceTab)
                        IN  \/ d > Len(s)
                            \/ /\ s[d] \in ValueChars \ (Quotes \cup {35})
                               /\ LET f == Span(s, Span(s, d, ValueChars), SpaceTab)
                                  IN  \/ f > Len(s)
                                      \/ f = Len(s) /\ s[f] \in LineTerminators

\* C1: an input that is one line NAME=value (an unquoted name, a non-empty
\* value without whitespace that starts with neither a quote nor '#',
\* spaces or tabs allowed before the name, around '=' and after the value,
\* a line terminator allowed at the end) yields exactly one Var,
\* Var(NAME, value), and no error: no character of such a line makes the
\* parser fail, and when the parser ends on such a line it has returned
\* and has yielded Var(NAME, value) and nothing else.
C1_SimpleLineYieldsItsVar ==
    /\ [][(ReadStep /\ IsSimpleLinePrefix(chars')) => result' = "running"]_all_vars
    /\ []((result # "running" /\ IsSimpleLine(chars)) =>
            /\ result = "returned"
            /\ vars = <<Var(SimpleLineName(chars), Str(SimpleLineValue(chars)))>>)

\* a simple line with a blank before the name, a two-character name and a
\* line terminator at the end has been parsed
C1_Witness ==
    /\ result = "returned"
    /\ IsSimpleLine(chars)
    /\ chars[1] = 32
    /\ chars[Len(chars)] = 10
    /\ Len(vars) = 1
    /\ Len(vars[1].name) = 2

\* s is  NAME= blanks [terminator]
IsBlankValueLine(s) ==
    LET b == Span(s, 1, NameChars)
    IN  /\ b > 1
        /\ s[1] \in Letters
        /\ b <= Len(s)
        /\ s[b] = 61
        /\ LET d == Span(s, b + 1, SpaceTab)
           IN  \/ d = Len(s) + 1
               \/ d = Len(s) /\ s[d] \in LineTerminators

\* s is  NAME=""  or  NAME=''
IsEmptyQuotedLine(s) ==
    LET b == Span(s, 1, NameChars)
    IN  /\ b > 1
        /\ s[1] \in Letters
        /\ Len(s) = b + 2
        /\ s[b] = 61
        /\ s[b + 1] \in Quotes
        /\ s[b + 2] = s[b + 1]

\* s ends with  = blanks [terminator]: nothing but blanks stands in the
\* value position up to the line terminator or the end of s
EndsWithBlankValue(s) ==
    LET n == IF Len(s) > 0 /\ s[Len(s)] \in LineTerminators
             THEN Len(s) - 1 ELSE Len(s)
        j == SpanBack(s, n, Blanks)
    IN  j > 0 /\ s[j] = 61

\* s is  NAME="  or  NAME='
IsOpenQuotedLine(s) == Len(s) > 0 /\ IsEmptyQuotedLine(Append(s, s[Len(s)]))

\* C2: unset and empty are distinguishable.  NAME= followed by spaces/tabs
\* and a line terminator or the end of input yields Var(NAME, None);
\* NAME="" and NAME='' yield Var(NAME, ""); no character of these lines
\* makes the parser fail.  Whenever a Var is yielded with
\* None, the text read ends with '=' and blanks (so no quoted value was
\* read), and whenever a Var is yielded with "", the text read does not
\* end with a value position that is blank up to the line terminator.
C2_UnsetAndEmptyDistinguished ==
    /\ [][(ReadStep /\ (\/ IsBlankValueLine(chars')
                        \/ IsOpenQuotedLine(chars')
                        \/ IsEmptyQuotedLine(chars')))
            => result' = "running"]_all_vars
    /\ [](/\ (result # "running" /\ IsBlankValueLine(chars)) =>
                /\ result = "returned"
                /\ vars = <<Var(SubSeq(chars, 1, Span(chars, 1, NameChars) - 1), None)>>
          /\ (result # "running" /\ IsEmptyQuotedLine(chars)) =>
                /\ result = "returned"
                /\ vars = <<Var(SubSeq(chars, 1, Span(chars, 1, NameChars) - 1), Str(<<>>))>>)
    /\ [][YieldStep =>
            /\ Yielded.value = None => EndsWithBlankValue(chars')
            /\ Yielded.value = Str(<<>>) => ~EndsWithBlankValue(chars')]_all_vars

\* NAME= with a blank and a line terminator was parsed to an unset Var, or
\* NAME="" to an empty one
C2_WitnessUnset ==
    /\ result = "returned"
    /\ IsBlankValueLine(chars)
    /\ chars[Len(chars)] = 10
    /\ chars[Len(chars) - 1] = 32
    /\ vars[1].value = None
C2_WitnessEmpty ==
    /\ result = "returned"
    /\ IsEmptyQuotedLine(chars)
    /\ vars[1].value = Str(<<>>)
C2_Witness == C2_WitnessUnset \/ C2_WitnessEmpty

\* C3: the outcome at the end of the input is decided by the state
\* register: InUnquotedValue and AfterValue yield the pending Var(name,
\* value); BeforeValue yields Var(name, None); after either yield the
\* generator returns when it is resumed; BeforeName yields nothing
\* more and succeeds; every other state (a name state, an open quoted
\* value, a comment) fails with CannotParse and yields no Var.
C3_EndOfInputDecidedByState ==
    /\ [][EndStep =>
            IF state \in {_DOTENV_STATE_IN_UNQUOTED_VAL, _DOTENV_STATE_AFTER_VAL}
            THEN /\ result' = "running"
                 /\ vars' = Append(vars, Var(name_chars, Str(val_chars)))
            ELSE IF state = _DOTENV_STATE_BEFORE_VAL
            THEN /\ result' = "running"
                 /\ vars' = Append(vars, Var(name_chars, None))
            ELSE IF state = _DOTENV_STATE_BEFORE_NAME
            THEN /\ result' = "returned"
                 /\ vars' = vars
            ELSE /\ result' = "CannotParse"
                 /\ vars' = vars]_all_vars
    /\ [][(ResumeStep /\ pc = "last yield") =>
            (result' = "returned" /\ chars' = chars)]_all_vars

\* the escape tables of the dotenv format
DoubleQuotedTable ==
    (34 :> 34) @@ (110 :> 10) @@ (92 :> 92) @@ (116 :> 9) @@ (39 :> 39)
    @@ (114 :> 13) @@ (118 :> 11) @@ (102 :> 12) @@ (98 :> 8) @@ (97 :> 7)
SingleQuotedTable == (39 :> 39) @@ (92 :> 92)

QuotedStates ==
    {_DOTENV_STATE_IN_DOUBLE_QUOTED_VAL, _DOTENV_STATE_IN_SINGLE_QUOTED_VAL,
     _DOTENV_STATE_IN_QUOTED_NAME}

\* C4: inside quotes a backslash appends nothing by itself; the character
\* after it is looked up in the escape table of the quote (ten escapes in a
\* double-quoted value, two in a single-quoted value or name) and the
\* table's character is appended to the accumulator of the quote; a
\* character outside the table fails with CannotParse and yields no Var.
C4_EscapeTables ==
    [][(ReadStep /\ state \in QuotedStates) =>
        IF pc = "escape"
        THEN LET table == IF state = _DOTENV_STATE_IN_DOUBLE_QUOTED_VAL
                          THEN DoubleQuotedTable ELSE SingleQuotedTable
             IN  IF CharRead \in DOMAIN table
                 THEN /\ result' = "running"
                      /\ state' = state
                      /\ vars' = vars
                      /\ IF state = _DOTENV_STATE_IN_QUOTED_NAME
                         THEN /\ name_chars' = Append(name_chars, table[CharRead])
                              /\ val_chars' = val_chars
                         ELSE /\ val_chars' = Append(val_chars, table[CharRead])
                              /\ name_chars' = name_chars
                 ELSE /\ result' = "CannotParse"
                      /\ vars' = vars
        ELSE CharRead = 92 =>
                /\ pc' = "escape"
                /\ result' = "running"
                /\ <<state', name_chars', val_chars', vars'>>
                      = <<state, name_chars, val_chars, vars>>]_all_vars

\* backslash-n was read inside a double-quoted value and gave a line feed,
\* or an escape outside the table of a single-quoted value has failed
C4_WitnessNewline ==
    /\ state = _DOTENV_STATE_IN_DOUBLE_QUOTED_VAL
    /\ result = "running"
    /\ pc = "loop"
    /\ Len(chars) >= 2
    /\ chars[Len(chars) - 1] = 92
    /\ chars[Len(chars)] = 110
    /\ val_chars = <<10>>
C4_WitnessInvalid ==
    /\ state = _DOTENV_STATE_IN_SINGLE_QUOTED_VAL
    /\ result = "CannotParse"
    /\ chars[Len(chars)] = 110
    /\ vars = <<>>
C4_Witness == C4_WitnessNewline \/ C4_WitnessInvalid

Fails == result' = "CannotParse" /\ vars' = vars

\* nothing follows a failure
FailureIsFinal == result = "CannotParse" => (vars' = vars /\ result' = result)

\* C5: the parser fails with CannotParse, and yields no further Var, when
\* (a) where a name is expected a character occurs that is not whitespace
\* (a blank or a line terminator, which are skipped there), a letter, an
\* apostrophe or '#'; (b) in an unquoted name a character occurs other than
\* a letter, a digit, an underscore, '=', a space or a tab; (c) after a
\* finished name a character occurs that is neither blank nor '='; (d) after
\* a closed value a character occurs that is neither blank nor '#' nor a
\* line terminator.  In (c) and (d) the vertical tab counts as a blank, so
\* that only (b), which names its characters, decides about it.
C5_IllegalCharactersFail ==
    /\ [][(ReadStep /\ pc = "loop") =>
            /\ (state = _DOTENV_STATE_BEFORE_NAME
                /\ CharRead \notin Blanks \cup LineTerminators \cup Letters \cup {39, 35})
               => Fails
            /\ (state = _DOTENV_STATE_IN_UNQUOTED_NAME
                /\ CharRead \notin NameChars \cup {61} \cup SpaceTab)
               => Fails
            /\ (state = _DOTENV_STATE_AFTER_NAME
                /\ CharRead \notin Blanks \cup {61})
               => Fails
            /\ (state = _DOTENV_STATE_AFTER_VAL
                /\ CharRead \notin Blanks \cup {35} \cup LineTerminators)
               => Fails]_all_vars
    /\ [][FailureIsFinal]_all_vars

\* C6: '#' starts a comment exactly where a name is expected, where a value
\* is expected and after a closed value; in the last two places the Var of
\* the line is yielded with the value parsed so far, and the comment begins
\* when the generator goes on behind the yield.  Inside a comment every
\* character is ignored (no Var, no error, the accumulators stay empty)
\* and a line terminator ends the comment.  Inside a quoted value and
\* inside an unquoted value '#' is appended to the value.
C6_Comments ==
    /\ [][(state' = _DOTENV_STATE_IN_COMMENT /\ state # _DOTENV_STATE_IN_COMMENT)
            => /\ chars'[Len(chars')] = 35
               /\ state \in {_DOTENV_STATE_BEFORE_NAME, _DOTENV_STATE_BEFORE_VAL,
                             _DOTENV_STATE_AFTER_VAL}]_all_vars
    /\ [][(ReadStep /\ pc = "loop") =>
        /\ (CharRead = 35 /\ state = _DOTENV_STATE_BEFORE_NAME)
           => /\ state' = _DOTENV_STATE_IN_COMMENT
              /\ vars' = vars
              /\ result' = "running"
        /\ (CharRead = 35 /\ state = _DOTENV_STATE_BEFORE_VAL)
           => /\ pc' = "yield"
              /\ YieldStep
              /\ Yielded.name = name_chars
              /\ result' = "running"
        /\ (CharRead = 35 /\ state = _DOTENV_STATE_AFTER_VAL)
           => /\ pc' = "yield"
              /\ vars' = Append(vars, Var(name_chars, Str(val_chars)))
              /\ result' = "running"
        /\ state = _DOTENV_STATE_IN_COMMENT
           => /\ vars' = vars
              /\ result' = "running"
              /\ name_chars = <<>> /\ name_chars' = <<>>
              /\ val_chars = <<>> /\ val_chars' = <<>>
              /\ state' = IF CharRead \in LineTerminators
                          THEN _DOTENV_STATE_BEFORE_NAME
                          ELSE _DOTENV_STATE_IN_COMMENT
        /\ (CharRead = 35
            /\ state \in {_DOTENV_STATE_IN_UNQUOTED_VAL,
                          _DOTENV_STATE_IN_DOUBLE_QUOTED_VAL,
                          _DOTENV_STATE_IN_SINGLE_QUOTED_VAL})
           => /\ val_chars' = Append(val_chars, 35)
              /\ state' = state
              /\ vars' = vars
              /\ result' = "running"]_all_vars
    /\ [][(ResumeStep /\ pc = "yield" /\ chars[Len(chars)] = 35)
            => /\ state' = _DOTENV_STATE_IN_COMMENT
               /\ vars' = vars
               /\ result' = "running"]_all_vars

\* a comment that holds '=' and a quote has ended at a line terminator
\* after a Var was yielded at its '#', or '#' became part of a value
C6_WitnessComment ==
    /\ state = _DOTENV_STATE_BEFORE_NAME
    /\ result = "running"
    /\ Len(chars) = 6
    /\ chars[3] = 35
    /\ chars[4] = 61
    /\ chars[5] = 34
    /\ chars[6] = 10
    /\ Len(vars) = 1
C6_WitnessInValue ==
    /\ result = "returned"
    /\ Len(vars) = 1
    /\ vars[1].value = Str(<<49, 35, 49>>)
C6_Witness == C6_WitnessComment \/ C6_WitnessInValue

\* s is  NAME= blanks #
IsBlankValueThenHash(s) ==
    LET b == Span(s, 1, NameChars)
    IN  /\ b > 1
        /\ s[1] \in Letters
        /\ b <= Len(s)
        /\ s[b] = 61
        /\ Span(s, b + 1, SpaceTab) = Len(s)
        /\ s[Len(s)] = 35

\* C7 as claimed: NAME= followed by spaces/tabs and '#' yields the unset
\* Var(NAME, None).
C7_AsClaimed ==
    [][(ReadStep /\ IsBlankValueThenHash(chars')) =>
        /\ result' = "running"
        /\ vars' = <<Var(SubSeq(chars', 1, Span(chars', 1, NameChars) - 1), None)>>]_all_vars

\* C7 (amended): NAME= followed by spaces/tabs and '#' yields
\* Var(NAME, ""), the empty string and not the unset value that a blank
\* value position before a line terminator gives; the parser does not fail
\* on it.
C7_BlankBeforeCommentIsEmpty ==
    [][(ReadStep /\ IsBlankValueThenHash(chars')) =>
        /\ result' = "running"
        /\ vars' = <<Var(SubSeq(chars', 1, Span(chars', 1, NameChars) - 1), Str(<<>>))>>
        /\ IsBlankValueLine(chars)]_all_vars

\* A= # was read: the Var is yielded with the empty string
C7_Witness ==
    /\ chars = <<65, 61, 32, 35>>
    /\ state = _DOTENV_STATE_IN_COMMENT
    /\ vars = <<Var(<<65>>, Str(<<>>))>>

\* ------------------------------------------------------------------------
\* Vocabulary of the properties of from_chars_iter.

\* the dotenv name matches the field spec under the spec's case policy
NameMatches(spec, name) ==
    IF spec.ignore_case
    THEN Lower(name) = Lower(spec.dotenv_var_name)
    ELSE name = spec.dotenv_var_name
\* the input holds a variable for field i / the variable matches no field
HasVarFor(i) == \E k \in 1..Len(seen) : NameMatches(var_specs[i], seen[k].name)
Unmatched(var) == \A i \in 1..Len(var_specs) : ~NameMatches(var_specs[i], var.name)
Matched(var) == ~Unmatched(var)
\* the whole input was read without a syntax error and the call has ended
EndedAfterInput == outcome.kind \in {"returned", "VariableMissing", "TypeError"}
Range(f) == {f[k] : k \in DOMAIN f}

\* C8, its last part: when VariableMissing is raised it names every missing
\* field, that is every field without default for which the input holds no
\* variable, by its dataclass field name and by its dotenv name.
C8_NamesEveryMissingField ==
    \A i \in 1..Len(var_specs) :
        (outcome.kind = "VariableMissing"
         /\ var_specs[i].default = MISSING
         /\ ~HasVarFor(i))
        => /\ var_specs[i].dataclass_field_name
                \in Range(outcome.missing_dataclass_field_names)
           /\ var_specs[i].dotenv_var_name \in Range(outcome.missing_var_names)

\* the loop of from_chars_iter over a whole sequence of Vars; it ends at the
\* first error
RECURSIVE RunVars(_, _, _, _)
RunVars(specs, allow, c, vs) ==
    IF vs = <<>> \/ c.outcome # Running THEN c
    ELSE RunVars(specs, allow, HandleVar(specs, <<>>, allow, c, Head(vs)), Tail(vs))

\* C9: a variable that matches no field makes from_chars_iter fail with
\* VariableNotSpecified at that variable when allow_incomplete is false;
\* when allow_incomplete is true the variable is skipped (no flag, no
\* keyword argument and no error results from it), and the progress and
\* the outcome of the call are those of the same input with the unmatched
\* variables removed.
C9_UnknownVariables ==
    /\ [][(Len(seen') = Len(seen) + 1 /\ Unmatched(seen'[Len(seen')])) =>
            IF allow_incomplete
            THEN <<_resolved', dataclass_kwargs', outcome'>>
                    = <<_resolved, dataclass_kwargs, outcome>>
            ELSE /\ outcome'.kind = "VariableNotSpecified"
                 /\ outcome'.name = seen'[Len(seen')].name]_all_vars
    /\ [](allow_incomplete =>
            LET known == SelectSeq(seen, Matched)
                c == RunVars(var_specs, TRUE, StartOfCall(var_specs), known)
            IN  IF EndedAfterInput
                THEN Current = AfterLoop(var_specs, c)
                ELSE outcome.kind \in {"CannotParse", "RuntimeError"} \/ Current = c)

\* with allow_incomplete an input of an unknown and a known variable gave
\* the record; without it an unknown variable after a known one failed
C9_WitnessSkipped ==
    /\ allow_incomplete
    /\ Len(seen) = 2
    /\ Unmatched(seen[1])
    /\ Matched(seen[2])
    /\ outcome.kind = "returned"
C9_WitnessRejected ==
    /\ ~allow_incomplete
    /\ Len(seen) = 2
    /\ Matched(seen[1])
    /\ Unmatched(seen[2])
    /\ outcome.kind = "VariableNotSpecified"
C9_Witness == C9_WitnessSkipped \/ C9_WitnessRejected

\* C10: after the variable stream is exhausted, every field that declares a
\* default and for which the input holds no variable is marked resolved,
\* has its declared default as its keyword argument and is not reported as
\* missing.
C10_DefaultsFillUnsetFields ==
    \A i \in 1..Len(var_specs) :
        (EndedAfterInput /\ var_specs[i].default # MISSING /\ ~HasVarFor(i))
        => /\ _resolved[i]
           /\ var_specs[i].dataclass_field_name \in DOMAIN dataclass_kwargs
           /\ dataclass_kwargs[var_specs[i].dataclass_field_name] = var_specs[i].default
           /\ outcome.kind = "VariableMissing" =>
                var_specs[i].dataclass_field_name
                    \notin Range(outcome.missing_dataclass_field_names)
           /\ outcome.kind = "returned" =>
                outcome.record[var_specs[i].dataclass_field_name]
                    = var_specs[i].default

\* C11: in every _Spec reached by compiling a dataclass under a case policy
\* and applying retarget calls, no two field specs share a dotenv name
\* under the policy: looking up each spec's own dotenv name in the name
\* maps gives that spec's own index.
C11_OwnNameFindsOwnSpec ==
    \A i \in 1..Len(var_specs) :
        find_spec_idx_for_var_name(var_specs, var_specs[i].dotenv_var_name) = i

\* C12: when the input holds two variables that resolve to the same field
\* spec, the attempt to resolve the spec that is already resolved fails
\* with VariableDuplicate at the second variable.
C12_DuplicateIsAnError ==
    [][(Len(seen') = Len(seen) + 1
        /\ find_spec_idx_for_var_name(var_specs, seen'[Len(seen')].name) # 0
        /\ _resolved[find_spec_idx_for_var_name(var_specs, seen'[Len(seen')].name)])
       => outcome'.kind = "VariableDuplicate"]_all_vars

\* the names a case policy lets match a field named f
PolicyMatches(case, f, n) ==
    CASE case = "upper" -> n = Upper(f)
      [] case = "lower" -> n = Lower(f)
      [] case = "preserve" -> n = f
      [] case = "ignore" -> Lower(n) = Lower(f)
\* the field specs are those datadotenv(datacls, case=case) compiles
CompiledUnder(case) ==
    \A i \in 1..Len(var_specs) :
        /\ var_specs[i].dotenv_var_name
                = _transform_case(case, var_specs[i].dataclass_field_name)
        /\ var_specs[i].ignore_case = (case = "ignore")
\* the step handles its variable as the variable of field i: the field is
\* resolved and, unless the conversion failed, has its keyword argument
HandledAsField(i) ==
    /\ _resolved'[i]
    /\ outcome' = Running =>
            var_specs[i].dataclass_field_name \in DOMAIN dataclass_kwargs'
\* the step handles its variable as an unknown variable
HandledAsUnknown ==
    IF allow_incomplete
    THEN <<_resolved', dataclass_kwargs', outcome'>>
            = <<_resolved, dataclass_kwargs, outcome>>
    ELSE outcome'.kind = "VariableNotSpecified"

\* C13: the case policy decides which variable names match a field named
\* f: 'upper' exactly the upper-cased f, 'lower' exactly the lower-cased f,
\* 'preserve' exactly f, 'ignore' every name whose lower-casing equals the
\* lower-cased f.  A variable whose name matches a field is handled as that
\* field's variable; a name that matches no field is an unknown variable.
C13_CasePolicyDecidesMatch ==
    [][\A case \in _Casing :
        (CompiledUnder(case) /\ Len(seen') = Len(seen) + 1) =>
            LET n == seen'[Len(seen')].name
                f(i) == var_specs[i].dataclass_field_name
            IN  /\ \A i \in 1..Len(var_specs) :
                        PolicyMatches(case, f(i), n) => HandledAsField(i)
                /\ (\A i \in 1..Len(var_specs) : ~PolicyMatches(case, f(i), n))
                        => HandledAsUnknown]_all_vars

\* the last retarget call; the field it was made for, when old_name is that
\* field's current dotenv name or its dataclass field name
LastRetarget == retargets[Len(retargets)]
RetargetStep == Len(retargets') = Len(retargets) + 1
IsNamedBy(spec, old_name) ==
    NameMatches(spec, old_name) \/ spec.dataclass_field_name = old_name
\* under the field's policy the two names are the same name
SameName(spec, n, m) == IF spec.ignore_case THEN Lower(n) = Lower(m) ELSE n = m
\* after the step a variable named new_name resolves to field i, one with
\* the previous dotenv name of field i does not, and the other fields keep
\* their names
RetargetedTo(i, new_name) ==
    /\ find_spec_idx_for_var_name(var_specs', new_name) = i
    /\ ~SameName(var_specs[i], var_specs[i].dotenv_var_name, new_name) =>
            find_spec_idx_for_var_name(var_specs', var_specs[i].dotenv_var_name) # i
    /\ \A j \in 1..Len(var_specs) :
            j # i => var_specs'[j].dotenv_var_name = var_specs[j].dotenv_var_name
RetargetMovesTheName ==
    RetargetStep =>
        LET r == retargets'[Len(retargets')]
        IN  (\E i \in 1..Len(var_specs) : IsNamedBy(var_specs[i], r.old_name))
            => \E i \in 1..Len(var_specs) :
                    /\ IsNamedBy(var_specs[i], r.old_name)
                    /\ RetargetedTo(i, r.new_name)
\* the first variable of the call made after the retarget calls
FirstVarAfterRetarget ==
    (Len(retargets) > 0 /\ Len(seen) = 1 /\ LastRetarget.idx # 0) =>
        LET i == LastRetarget.idx
            previous_name == LastRetarget.before[i].dotenv_var_name
        IN  /\ seen[1].name = LastRetarget.new_name => _resolved[i]
            /\ (seen[1].name = previous_name
                /\ ~SameName(var_specs[i], previous_name, LastRetarget.new_name))
               => /\ ~_resolved[i]
                  /\ (~allow_incomplete /\ Unmatched(seen[1]))
                        => outcome.kind = "VariableNotSpecified"

\* C14: after retarget(old, new), where old is the field's current dotenv
\* name or its dataclass field name, a variable named new resolves to that
\* field and a variable carrying the field's previous dotenv name no longer
\* resolves to it (VariableNotSpecified when allow_incomplete is false);
\* the names of all other fields are unchanged; this holds after any
\* sequence of retarget calls.
C14_RetargetMovesTheName ==
    /\ [][RetargetMovesTheName]_all_vars
    /\ []FirstVarAfterRetarget

\* the call is at rest: every Var yielded was handled and an error or the
\* return of the parser has reached from_chars_iter
Settled == Len(seen) = Len(vars) /\ (result = "running" \/ Ended)
\* the call has read the text that the ended call p had read
SameInputAs(p) == Settled /\ chars = p.chars /\ result = p.result /\ pc = p.pc
\* the call is what a call on new flags makes of the Vars it handled
AsOnNewFlags ==
    LET c == RunVars(var_specs, allow_incomplete, StartOfCall(var_specs), seen)
    IN  IF EndedAfterInput THEN Current = AfterLoop(var_specs, c)
        ELSE outcome.kind \in {"CannotParse", "RuntimeError"} \/ Current = c
NewCallStep == Len(previous') = Len(previous) + 1

\* C15: two calls of from_chars_iter on the same _Spec with the same input
\* and no builder call in between yield the same Vars and the same outcome;
\* the resolution state is created anew per call, so a field resolved in
\* an earlier call, whether that call returned or raised, is unresolved at
\* the start of the next call, and parsing does not change the field specs.
C15_CallsAreIndependent ==
    /\ [](\A k \in 1..Len(previous) :
            SameInputAs(previous[k]) =>
                (vars = previous[k].vars /\ outcome = previous[k].outcome))
    /\ [][NewCallStep =>
            /\ \A i \in 1..Len(var_specs) : ~_resolved'[i]
            /\ dataclass_kwargs' = NoKwargs
            /\ vars' = <<>>]_all_vars
    /\ []AsOnNewFlags
    /\ [][var_specs' = var_specs]_all_vars

\* a second call on the same text ended as the first, which had resolved
\* the field: once after a return, once after a conversion error
C15_WitnessReturned ==
    /\ Len(previous) = 1
    /\ previous[1]._resolved[1]
    /\ previous[1].outcome.kind = "returned"
    /\ Len(previous[1].vars) = 1
    /\ Ended
    /\ SameInputAs(previous[1])
    /\ outcome = previous[1].outcome
C15_WitnessRaised ==
    /\ Len(previous) = 1
    /\ previous[1]._resolved[1]
    /\ previous[1].outcome.kind = "CannotConvertToType"
    /\ Ended
    /\ SameInputAs(previous[1])
    /\ outcome = previous[1].outcome
C15_Witness == C15_WitnessReturned \/ C15_WitnessRaised

\* the call with frame f has read what the ended call p had read, and has
\* then the Vars, the flags and the outcome of p
FrameSettled(f) ==
    Len(f.seen) = Len(f.vars) /\ (f.result = "running" \/ f.outcome # Running)
FrameAsAlone(f, p) ==
    (FrameSettled(f) /\ f.chars = p.chars /\ f.result = p.result /\ f.pc = p.pc) =>
        (f.vars = p.vars /\ f._resolved = p._resolved /\ f.outcome = p.outcome)
\* the step suspends the running call and resumes the waiting one
SwitchStep == other.exists /\ other'.exists /\ other'.repeat # other.repeat
\* a step of the running call leaves the frame of the waiting call as it
\* is, and a call is resumed with the frame it was suspended with
FramesAreSeparate ==
    other.exists =>
        IF SwitchStep
        THEN [Frame(TRUE)' EXCEPT !.repeat = other.repeat] = other
        ELSE other' = other

\* C16: two calls of from_chars_iter that run interleaved, on the same
\* _Spec or on different ones, each produce the outcome they produce when
\* run alone: no accumulator or state register of the parser and no
\* resolved flag is shared between the calls.
C16_InterleavedAsAlone ==
    /\ [](IsRepeat => FrameAsAlone(Frame(TRUE), previous[1]))
    /\ []((other.exists /\ other.repeat) => FrameAsAlone(other, previous[1]))
    /\ []AsOnNewFlags
    /\ [][FramesAreSeparate]_all_vars

\* the call ended as it did alone, without its field, while a second call
\* on the same _Spec was in progress and had resolved that field
C16_Witness ==
    /\ IsRepeat
    /\ Ended
    /\ Len(chars) > 0
    /\ SameInputAs(previous[1])
    /\ outcome = previous[1].outcome
    /\ outcome.kind = "VariableMissing"
    /\ other.exists
    /\ other.var_specs = var_specs
    /\ other.outcome = Running
    /\ other._resolved[1]

\* the step handles a variable of the one field of the dataclass; what the
\* conversion of that variable gave
VarStep == Len(seen') = Len(seen) + 1
StepVar == seen'[Len(seen')]
FieldType == var_specs[1].dataclass_field_type
StepGives(value) ==
    /\ outcome' = Running
    /\ dataclass_kwargs'[var_specs[1].dataclass_field_name] = value
StepRaises(error) == outcome'.kind = error
StrTrue == {Str(<<116, 114, 117, 101>>), Str(<<84, 114, 117, 101>>)}
StrFalse == {Str(<<102, 97, 108, 115, 101>>), Str(<<70, 97, 108, 115, 101>>)}

\* C17 as it is stated: a bool field converts "true" and "True" to true,
\* "false" and "False" to false, and anything else fails with
\* CannotConvertToType.
C17_AsClaimed ==
    [][(VarStep /\ FieldType = "bool") =>
        IF StepVar.value \in StrTrue THEN StepGives(PyBool(TRUE))
        ELSE IF StepVar.value \in StrFalse THEN StepGives(PyBool(FALSE))
        ELSE StepRaises("CannotConvertToType")]_all_vars

\* C17, amended: a bool field converts "true" and "True" to true, "false"
\* and "False" to false; every other set value fails with
\* CannotConvertToType and an unset variable fails with VariableUnset.
C17_BoolConversion ==
    [][(VarStep /\ FieldType = "bool") =>
        IF StepVar.value \in StrTrue THEN StepGives(PyBool(TRUE))
        ELSE IF StepVar.value \in StrFalse THEN StepGives(PyBool(FALSE))
        ELSE IF StepVar.value = None THEN StepRaises("VariableUnset")
        ELSE StepRaises("CannotConvertToType")]_all_vars

\* a bool field got true from "True" and then failed on "TRUE"
C17_Witness ==
    /\ FieldType = "bool"
    /\ Len(seen) = 2
    /\ seen[1].value = Str(<<84, 114, 117, 101>>)
    /\ seen[2].value = Str(<<84, 82, 85, 69>>)
    /\ dataclass_kwargs[<<97>>] = PyBool(TRUE)
    /\ outcome.kind = "CannotConvertToType"

\* C18: a str field fails with VariableUnset when the variable is unset and
\* otherwise takes the parsed value unchanged, the empty string included.
C18_StrConversion ==
    [][(VarStep /\ FieldType = "str") =>
        IF StepVar.value = None THEN StepRaises("VariableUnset")
        ELSE StepGives(PyStr(StepVar.value.str))]_all_vars

\* a str field took the empty string and then failed on an unset variable
C18_Witness ==
    /\ FieldType = "str"
    /\ Len(seen) = 2
    /\ seen[1].value = Str(<<>>)
    /\ seen[2].value = None
    /\ dataclass_kwargs[<<97>>] = PyStr(<<>>)
    /\ outcome.kind = "VariableUnset"

\* C19: a field declared None succeeds, with the value None, only when the
\* variable is unset; every set value, the empty string included, fails
\* with CannotConvertToType.
C19_NoneConversion ==
    [][(VarStep /\ FieldType = "None") =>
        IF StepVar.value = None THEN StepGives(PyNone)
        ELSE StepRaises("CannotConvertToType")]_all_vars

\* a None field took an unset variable and then failed on the empty string
C19_Witness ==
    /\ FieldType = "None"
    /\ Len(seen) = 2
    /\ seen[1].value = None
    /\ seen[2].value = Str(<<>>)
    /\ dataclass_kwargs[<<97>>] = PyNone
    /\ outcome.kind = "CannotConvertToType"

\* the forms of optional T, with T
OptionalForms ==
    {<<"int | None", "int">>, <<"Union[int, None]", "int">>, <<"Optional[int]", "int">>,
     <<"str | None", "str">>, <<"Union[str, None]", "str">>, <<"Optional[str]", "str">>,
     <<"bool | None", "bool">>, <<"Union[bool, None]", "bool">>,
     <<"Optional[bool]", "bool">>}
\* the step gives what the conversion r gives
StepAs(r) == IF r.ok THEN StepGives(r.value) ELSE StepRaises(r.error)

\* C20: for a field declared optional T as T | None, Union[T, None] or
\* Optional[T], an unset variable converts to None and a set variable
\* converts as it does for a field of type T: the same value or the same
\* failure.
C20_OptionalConversion ==
    [][\A form \in OptionalForms :
        (VarStep /\ FieldType = form[1]) =>
            IF StepVar.value = None THEN StepGives(PyNone)
            ELSE StepAs(_choose_validator_and_converter(
                            var_specs[1], form[2], <<>>, StepVar))]_all_vars

\* the unions of two classes that have a built-in handler, with their
\* branches in declared order
UnionForms ==
    {<<"int | str", "int", "str">>, <<"str | int", "str", "int">>,
     <<"int | bool", "int", "bool">>, <<"bool | int", "bool", "int">>,
     <<"Union[int, str]", "int", "str">>, <<"Union[str, int]", "str", "int">>}
\* what the converter of one branch gives for the variable
BranchConverts(type, var) ==
    IF type = "int" THEN _validate_and_convert_int(var)
    ELSE IF type = "bool" THEN _validate_and_convert_bool(var)
    ELSE _validate_and_convert_str(var)

\* C21: a union field takes the value of the first branch, in declared
\* order, whose converter succeeds on the variable; when the converter of
\* every branch fails the conversion fails with CannotConvertToType.
C21_UnionFirstSuccess ==
    [][\A form \in UnionForms :
        (VarStep /\ FieldType = form[1]) =>
            IF BranchConverts(form[2], StepVar).ok
            THEN StepGives(BranchConverts(form[2], StepVar).value)
            ELSE IF BranchConverts(form[3], StepVar).ok
            THEN StepGives(BranchConverts(form[3], StepVar).value)
            ELSE StepRaises("CannotConvertToType")]_all_vars

\* an int | bool field took true from "True", which is no integer, and
\* then failed on "x"
C21_Witness ==
    /\ FieldType = "int | bool"
    /\ seen = <<Var(<<65>>, Str(<<84, 114, 117, 101>>)), Var(<<65>>, Str(<<120>>))>>
    /\ dataclass_kwargs[<<97>>] = PyBool(TRUE)
    /\ outcome.kind = "CannotConvertToType"

\* the literals of strings and integers, with their options in declared
\* order
LiteralForms ==
    {<<"Literal['x', 42]", PyStr(<<120>>), PyInt(42)>>,
     <<"Literal[42, 'x']", PyInt(42), PyStr(<<120>>)>>,
     <<"Literal['x', '1']", PyStr(<<120>>), PyStr(<<49>>)>>}
\* the converter of the option's own class succeeds on the variable and
\* gives the option
OptionMatches(option, var) ==
    /\ BranchConverts(option.t, var).ok
    /\ BranchConverts(option.t, var).value = option

\* C22: a literal field takes the first option, in declared order, that
\* equals the value its own class converts the variable to; when no option
\* matches, also because a converter fails on the variable, the conversion
\* fails with CannotConvertToType.
C22_LiteralFirstMatch ==
    [][\A form \in LiteralForms :
        (VarStep /\ FieldType = form[1]) =>
            IF OptionMatches(form[2], StepVar) THEN StepGives(form[2])
            ELSE IF OptionMatches(form[3], StepVar) THEN StepGives(form[3])
            ELSE StepRaises("CannotConvertToType")]_all_vars

\* a union whose first branch is a class without a converter and a literal
\* whose first option is of such a class
UnconvertibleFirst == {"complex | int", "Literal[b'x', 42]"}

\* C23: when the first branch of a union or the first option of a literal
\* is of a class that has no converter, the conversion of every variable
\* of the field fails with NotImplemented.
C23_NotImplementedPropagates ==
    [][\A type \in UnconvertibleFirst :
        (VarStep /\ FieldType = type) => StepRaises("NotImplemented")]_all_vars

\* The pieces of a text that are delimited by a separator of one
\* character: the positions of the separator, the number of pieces and the
\* piece between the (j-1)-th and the j-th position.
SeparatorPositions(text, sep) == {i \in 1..Len(text) : text[i] = sep[1]}
PieceCount(text, sep) == Cardinality(SeparatorPositions(text, sep)) + 1
PieceEnd(text, sep, j) ==
    IF j = 0 THEN 0
    ELSE IF j = PieceCount(text, sep) THEN Len(text) + 1
    ELSE CHOOSE i \in SeparatorPositions(text, sep) :
            Cardinality({h \in SeparatorPositions(text, sep) : h <= i}) = j
Piece(text, sep, j) ==
    SubSeq(text, PieceEnd(text, sep, j - 1) + 1, PieceEnd(text, sep, j) - 1)
FieldSeparator == var_specs[1].sequence_separator
FieldTrims == var_specs[1].trim_sequence_items
\* the j-th item of a text as the converter of the class type takes it:
\* the piece, trimmed when trimming is on
Item(type, text, j) ==
    BranchConverts(type, Var(StepVar.name,
        Str(IF FieldTrims THEN Strip(Piece(text, FieldSeparator, j))
            ELSE Piece(text, FieldSeparator, j))))
\* the step fails, whatever the error
StepFails == outcome' # Running
\* the lists of a class that has a converter
ListForms == {<<"list[int]", "int">>, <<"list[str]", "str">>}
\* what a list field of the item class type gives for a set variable when
\* the pieces are taken from text
ListOf(type, text) ==
    IF \A j \in 1..PieceCount(text, FieldSeparator) : Item(type, text, j).ok
    THEN StepGives(PyList([j \in 1..PieceCount(text, FieldSeparator) |->
                            Item(type, text, j).value]))
    ELSE StepFails
\* the value of the variable, trimmed as a whole when trimming is on
Trimmed(value) == IF FieldTrims THEN Strip(value.str) ELSE value.str

\* C24 as it is stated: a list field gives the empty list for an unset
\* variable, and for a set value with k occurrences of the separator the
\* list of the k+1 conversions of the pieces of the value, in order, each
\* piece trimmed when trim_sequence_items is on; the field fails when the
\* conversion of a piece fails.
C24_AsClaimed ==
    [][\A form \in ListForms :
        (VarStep /\ FieldType = form[1]) =>
            IF StepVar.value = None THEN StepGives(PyList(<<>>))
            ELSE ListOf(form[2], StepVar.value.str)]_all_vars

\* C24, amended: as stated, but when trim_sequence_items is on the
\* occurrences of the separator are counted, and the pieces are taken, in
\* the value with its leading and trailing whitespace removed.
C24_ListConversion ==
    [][\A form \in ListForms :
        (VarStep /\ FieldType = form[1]) =>
            IF StepVar.value = None THEN StepGives(PyList(<<>>))
            ELSE ListOf(form[2], Trimmed(StepVar.value))]_all_vars

\* a list of str, split at the space and trimmed, took the two pieces of
\* "x 1" and then the one piece of " x "
C24_Witness ==
    /\ FieldType = "list[str]"
    /\ FieldSeparator = <<SP>>
    /\ FieldTrims
    /\ seen = <<Var(<<65>>, Str(<<120, SP, 49>>)), Var(<<65>>, Str(<<SP, 120, SP>>))>>
    /\ dataclass_kwargs[<<97>>] = PyList(<<PyStr(<<120>>)>>)

\* the tuples of classes that have a converter, with the classes of their
\* positions
TupleForms ==
    {<<"tuple[int, str]", <<"int", "str">> >>, <<"tuple[str, str]", <<"str", "str">> >>,
     <<"tuple[int]", <<"int">> >>, <<"tuple[()]", <<>> >>}
\* the step raises the error with the text of the library
StepRaisesText(error, format) ==
    /\ outcome'.kind = error
    /\ "message" \in DOMAIN outcome'
    /\ outcome'.message.format = format

\* what a tuple field with the classes types of its positions gives for a
\* set variable when the items are counted in text and taken from it:
\* InvalidValue for too many or too few items, whether or not the items
\* convert, else the tuple of the conversions of the items, each with the
\* class of its position, or the failure of one of them
TupleOf(types, text) ==
    LET count == PieceCount(text, FieldSeparator)
    IN  IF count > Len(types) THEN StepRaisesText("InvalidValue", "too many items")
        ELSE IF count < Len(types)
        THEN StepRaisesText("InvalidValue", "too few items")
        ELSE IF \A j \in 1..count : Item(types[j], text, j).ok
        THEN StepGives(PyTuple([j \in 1..count |-> Item(types[j], text, j).value]))
        ELSE StepFails

\* C25 as it is stated: a tuple field of n positions gives the empty tuple
\* for an unset variable; for a set value whose number of
\* separator-delimited items is greater than n it fails with InvalidValue
\* for too many items and with a smaller number with InvalidValue for too
\* few items, before any item is converted; with n items it gives the tuple
\* of the conversions of the items, each with the class of its position.
C25_AsClaimed ==
    [][\A form \in TupleForms :
        (VarStep /\ FieldType = form[1]) =>
            IF StepVar.value = None THEN StepGives(PyTuple(<<>>))
            ELSE TupleOf(form[2], StepVar.value.str)]_all_vars

\* C25, amended: as stated, but when trim_sequence_items is on the items
\* are counted, and taken, in the value with its leading and trailing
\* whitespace removed.
C25_TupleConversion ==
    [][\A form \in TupleForms :
        (VarStep /\ FieldType = form[1]) =>
            IF StepVar.value = None THEN StepGives(PyTuple(<<>>))
            ELSE TupleOf(form[2], Trimmed(StepVar.value))]_all_vars

\* a tuple[int, str] took (1, "x") from "1,x" and then failed for too many
\* items on "x,,", whose first item is no integer
C25_WitnessCount ==
    /\ FieldType = "tuple[int, str]"
    /\ FieldSeparator = <<COMMA>>
    /\ seen = <<Var(<<65>>, Str(<<49, COMMA, 120>>)),
                Var(<<65>>, Str(<<120, COMMA, COMMA>>))>>
    /\ dataclass_kwargs[<<97>>] = PyTuple(<<PyInt(1), PyStr(<<120>>)>>)
    /\ outcome.kind = "InvalidValue"
    /\ outcome.message.format = "too many items"
\* a tuple[int], split at the space and trimmed, took (1,) from " 1"
C25_WitnessTrimmed ==
    /\ FieldType = "tuple[int]"
    /\ FieldSeparator = <<SP>>
    /\ FieldTrims
    /\ seen = <<Var(<<65>>, Str(<<SP, 49>>))>>
    /\ dataclass_kwargs[<<97>>] = PyTuple(<<PyInt(1)>>)
    /\ outcome = Running
C25_Witness == C25_WitnessCount \/ C25_WitnessTrimmed

\* What the builder calls left on the one field of the dataclass, read
\* from the calls themselves: the validators attached to the field in the
\* order of the calls (the rejected convert attaches none), the
\* converters attached to the field and the registered converters.
Attaches(c) ==
    IF c.call \in {"validate", "convert"} /\ c.raised = "none" THEN c.validate
    ELSE <<>>
RECURSIVE AttachedBy(_)
AttachedBy(calls) ==
    IF calls = <<>> THEN <<>> ELSE Attaches(Head(calls)) \o AttachedBy(Tail(calls))
Attached == AttachedBy(builder)
IsFieldConvert(c) == c.call = "convert" /\ c.raised = "none"
IsTypeConvert(c) == c.call = "convert_type"
FieldConverts == SelectSeq(builder, IsFieldConvert)
TypeConverts == SelectSeq(builder, IsTypeConvert)
Accepting ==
    {i \in 1..Len(TypeConverts) : check_type_matches(TypeConverts[i], FieldType)}
FirstAccepting == CHOOSE i \in Accepting : \A j \in Accepting : i <= j
\* the conversion of the step's variable before the validators of the
\* field run
Unvalidated ==
    _choose_validator_and_converter(
        [var_specs[1] EXCEPT !.custom_validate = NoValidate], FieldType,
        _custom_validators_and_converters_specs, StepVar)

\* C26 as it is stated: of the result of a validator, True and None pass,
\* False fails with InvalidValue, a string fails with InvalidValue and the
\* string as the message, and an exception fails with InvalidValue.
C26_ResultTranslation ==
    [][(VarStep /\ Len(Attached) = 1 /\ Unvalidated.ok) =>
        LET validate_res == CallValidator(Attached[1], Unvalidated.value)
        IN  IF validate_res.t = "bool"
            THEN IF validate_res.v THEN StepGives(Unvalidated.value)
                 ELSE StepRaises("InvalidValue")
            ELSE IF validate_res.t = "NoneType" THEN StepGives(Unvalidated.value)
            ELSE IF validate_res.t = "str"
            THEN /\ StepRaisesText("InvalidValue", "verbatim")
                 /\ outcome'.message.text = validate_res.v
            ELSE IF validate_res.t = "exception" THEN StepRaises("InvalidValue")
            ELSE TRUE]_all_vars

\* the first validator of the chain that fails on the value, 0 if none
FirstFailing(chain, var, value) ==
    LET failing == {i \in 1..Len(chain) :
                        ~_resolve_user_validate(chain[i], var, value).ok}
    IN  IF failing = {} THEN 0
        ELSE CHOOSE i \in failing : \A j \in failing : i <= j

\* C27: for a field with validators attached, the variable is converted
\* first and a failure of the conversion is the outcome; otherwise the
\* validators are applied to the converted value in the order they were
\* attached, the failure of the first one that fails is the outcome, and
\* the field takes the converted value only when all of them pass.
C27_ConvertThenValidate ==
    [][(VarStep /\ Attached # <<>>) =>
        IF ~Unvalidated.ok THEN StepAs(Unvalidated)
        ELSE IF FirstFailing(Attached, StepVar, Unvalidated.value) = 0
        THEN StepGives(Unvalidated.value)
        ELSE outcome' = Raised(
                _resolve_user_validate(
                    Attached[FirstFailing(Attached, StepVar, Unvalidated.value)],
                    StepVar, Unvalidated.value),
                StepVar)]_all_vars

\* an int field with the validators message and other_message, attached in
\* this order, failed on "1" with the message of the first
C27_Witness ==
    /\ FieldType = "int"
    /\ Len(builder) = 2
    /\ Attached = <<"message", "other_message">>
    /\ seen = <<Var(<<65>>, Str(<<49>>))>>
    /\ outcome.kind = "InvalidValue"
    /\ outcome.message.text = <<109>>

\* the built-in handler of the declared type of the field
BuiltIn(var) ==
    IF FieldType = "int" THEN _validate_and_convert_int(var)
    ELSE Raise("NotImplemented")

\* C28: the converter of a field is the converter attached to the field
\* by convert; without one, the first registered converter, in the order of
\* registration, whose matcher accepts the declared type; without one, the
\* built-in handler of the declared type; and without one the conversion
\* fails with NotImplemented.
C28_DispatchOrder ==
    [][(VarStep /\ Attached = <<>>) =>
        StepAs(IF FieldConverts # <<>> THEN custom_convert(FieldConverts[1], StepVar)
               ELSE IF Accepting # {}
               THEN validate_and_convert(TypeConverts[FirstAccepting], StepVar)
               ELSE BuiltIn(StepVar))]_all_vars

\* an int field with len registered for int and str.upper attached to the
\* field took "X" from "x"
C28_Witness ==
    /\ FieldType = "int"
    /\ Len(builder) = 2
    /\ builder[1].call = "convert_type"
    /\ builder[1].type_matcher = "int"
    /\ builder[1].convert_str_to_type = "len"
    /\ builder[2].call = "convert"
    /\ builder[2].convert_str_to_type = "str.upper"
    /\ seen = <<Var(<<65>>, Str(<<120>>))>>
    /\ dataclass_kwargs[<<97>>] = PyStr(<<88>>)

\* the step is a call of convert
ConvertStep ==
    /\ Len(builder') = Len(builder) + 1
    /\ builder'[Len(builder')].call = "convert"

\* C29: a call of convert for a field that has a converter attached raises
\* ValueError and leaves the field as it was, with the first converter and
\* without the validator of the call; a call for a field without one
\* raises nothing and attaches its converter.
C29_DuplicateConvert ==
    [][ConvertStep =>
        LET c == builder'[Len(builder')]
        IN  IF FieldConverts # <<>>
            THEN c.raised = "ValueError" /\ var_specs' = var_specs
            ELSE /\ c.raised = "none"
                 /\ var_specs'[1].custom_convert
                        = Convert(c.convert_str_to_type, c.default_if_unset)]_all_vars

\* len was attached by the field name, str.upper with the validator
\* message was rejected by the dotenv name, and the field took 1 from "x"
C29_Witness ==
    /\ Len(builder) = 2
    /\ builder[1].call = "convert"
    /\ builder[1].name = <<97>>
    /\ builder[1].convert_str_to_type = "len"
    /\ builder[1].validate = NoValidate
    /\ builder[2].call = "convert"
    /\ builder[2].name = <<65>>
    /\ builder[2].validate = <<"message">>
    /\ builder[2].raised = "ValueError"
    /\ seen = <<Var(<<65>>, Str(<<120>>))>>
    /\ dataclass_kwargs[<<97>>] = PyInt(1)

\* the custom converter that the field uses, as its call gave it
UsesCustom == FieldConverts # <<>> \/ Accepting # {}
Custom == IF FieldConverts # <<>> THEN FieldConverts[1] ELSE TypeConverts[FirstAccepting]
NoValidateCall == \A i \in 1..Len(builder) : builder[i].call # "validate"
\* what the custom converter gives before its validator: the default for
\* an unset variable, the function applied to the string for a set one
CustomValue ==
    IF StepVar.value = None THEN Custom.default_if_unset
    ELSE CallConverter(Custom.convert_str_to_type, StepVar.value.str)

\* C30: with a custom converter, of the field or of the type, an unset
\* variable gives default_if_unset, or fails with VariableUnset when none
\* was given, and a set variable gives the function applied to its string;
\* the validator of the converter, when given, is applied to either value:
\* the value is taken when it passes and the step fails with InvalidValue
\* when it does not.
C30_CustomConversion ==
    [][(VarStep /\ UsesCustom /\ NoValidateCall) =>
        IF StepVar.value = None /\ Custom.default_if_unset = Ellipsis
        THEN StepRaises("VariableUnset")
        ELSE IF Custom.validate = NoValidate THEN StepGives(CustomValue)
        ELSE IF _resolve_user_validate(Custom.validate[1], StepVar, CustomValue).ok
        THEN StepGives(CustomValue)
        ELSE StepRaises("InvalidValue")]_all_vars

\* str.upper with the default 0 and the validator is_int was attached to
\* the field: the unset variable gave 0 and "x" failed the validator
C30_Witness ==
    /\ Len(builder) = 1
    /\ builder[1].call = "convert"
    /\ builder[1].convert_str_to_type = "str.upper"
    /\ builder[1].default_if_unset = PyInt(0)
    /\ builder[1].validate = <<"is_int">>
    /\ seen = <<Var(<<65>>, None), Var(<<65>>, Str(<<120>>))>>
    /\ dataclass_kwargs[<<97>>] = PyInt(0)
    /\ outcome.kind = "InvalidValue"

\* The <number><unit> tokens of a duration string s, read off the string: a
\* run of number characters that a run of unit characters follows at once;
\* a number that no unit follows at once is dangling.
RunEnd(s, i, In(_)) ==
    CHOOSE j \in i..Len(s) :
        (\A k \in i..j : In(s[k])) /\ (j = Len(s) \/ ~In(s[j + 1]))
NumberStarts(s) ==
    {i \in 1..Len(s) : IsNumberChar(s[i]) /\ (i = 1 \/ ~IsNumberChar(s[i - 1]))}
HasUnit(s, i) ==
    /\ RunEnd(s, i, IsNumberChar) < Len(s)
    /\ IsUnitChar(s[RunEnd(s, i, IsNumberChar) + 1])
TokenStarts(s) == {i \in NumberStarts(s) : HasUnit(s, i)}
DanglingNumbers(s) == {i \in NumberStarts(s) : ~HasUnit(s, i)}
TokenNumber(s, i) == SubSeq(s, i, RunEnd(s, i, IsNumberChar))
TokenUnit(s, i) ==
    SubSeq(s, RunEnd(s, i, IsNumberChar) + 1,
           RunEnd(s, RunEnd(s, i, IsNumberChar) + 1, IsUnitChar))
\* the units by their letters: the keyword of datetime.timedelta and the
\* magnitude, 7 for the week down to 1 for the microsecond, 0 for no unit
Keyword(unit) ==
    CASE unit = <<LOWER_W>> -> "weeks"
      [] unit = <<LOWER_D>> -> "days"
      [] unit = <<LOWER_H>> -> "hours"
      [] unit = <<LOWER_M>> -> "minutes"
      [] unit = <<LOWER_S>> -> "seconds"
      [] unit = <<LOWER_M, LOWER_S>> -> "milliseconds"
      [] unit \in {<<LOWER_U, LOWER_S>>, <<MU, LOWER_S>>} -> "microseconds"
Magnitude(unit) ==
    CASE unit = <<LOWER_W>> -> 7
      [] unit = <<LOWER_D>> -> 6
      [] unit = <<LOWER_H>> -> 5
      [] unit = <<LOWER_M>> -> 4
      [] unit = <<LOWER_S>> -> 3
      [] unit = <<LOWER_M, LOWER_S>> -> 2
      [] unit \in {<<LOWER_U, LOWER_S>>, <<MU, LOWER_S>>} -> 1
      [] OTHER -> 0
\* The sum of the tokens in exact decimal arithmetic.  A length of time is
\* kept as datetime keeps it, in days, seconds (0..86399) and microseconds
\* (0..999999), of which only the days are negative; frac holds what is left
\* below the microsecond, in hundred-millionths of a microsecond.  A length
\* of 10^9 days or more is an overflow.
Amount(days, seconds, microseconds, frac) ==
    LET us == microseconds + (frac \div 100000000)
        sec == seconds + (us \div 1000000)
        d == days + (sec \div 86400)
    IN  [days |-> d, seconds |-> sec % 86400, microseconds |-> us % 1000000,
         frac |-> frac % 100000000,
         overflow |-> d >= 1000000000 \/ d <= 0 - 1000000000]
Overflow ==
    [days |-> 0, seconds |-> 0, microseconds |-> 0, frac |-> 0, overflow |-> TRUE]
IsZero(a) ==
    ~a.overflow /\ a.days = 0 /\ a.seconds = 0 /\ a.microseconds = 0 /\ a.frac = 0
Plus(a, b) ==
    IF a.overflow \/ b.overflow THEN Overflow
    ELSE Amount(a.days + b.days, a.seconds + b.seconds,
                a.microseconds + b.microseconds, a.frac + b.frac)
Negate(a) ==
    IF a.overflow THEN Overflow
    ELSE Amount(0 - a.days, 0 - a.seconds, 0 - a.microseconds, 0 - a.frac)
\* ten times and a tenth of a length that is not negative; the tenth drops
\* what is below a hundred-millionth of a microsecond
Times10(a) ==
    IF a.overflow \/ a.days >= 100000000 THEN Overflow
    ELSE Amount(a.days * 10, a.seconds * 10, a.microseconds * 10, a.frac * 10)
Div10(a) ==
    LET sec == (a.days % 10) * 86400 + a.seconds
        us == (sec % 10) * 1000000 + a.microseconds
        frac == (us % 10) * 100000000 + a.frac
    IN  Amount(a.days \div 10, sec \div 10, us \div 10, frac \div 10)
RECURSIVE Scale(_, _)
Scale(a, exp) ==
    IF exp = 0 \/ a.overflow \/ IsZero(a) THEN a
    ELSE IF exp > 0 THEN Scale(Times10(a), exp - 1)
    ELSE Scale(Div10(a), exp + 1)
\* the length of one unit
UnitAmount(unit) ==
    CASE unit = "weeks" -> Amount(7, 0, 0, 0)
      [] unit = "days" -> Amount(1, 0, 0, 0)
      [] unit = "hours" -> Amount(0, 3600, 0, 0)
      [] unit = "minutes" -> Amount(0, 60, 0, 0)
      [] unit = "seconds" -> Amount(0, 1, 0, 0)
      [] unit = "milliseconds" -> Amount(0, 0, 1000, 0)
      [] unit = "microseconds" -> Amount(0, 0, 1, 0)
\* num units, for the decimal num: the sum over the digits of num of the
\* digit times its power of ten times the unit
RECURSIVE DigitsTimes(_, _, _)
DigitsTimes(digits, exp, unit) ==
    IF digits = <<>> THEN Amount(0, 0, 0, 0)
    ELSE LET digit == digits[Len(digits)]
             u == UnitAmount(unit)
         IN  Plus(DigitsTimes(SubSeq(digits, 1, Len(digits) - 1), exp + 1, unit),
                  Scale(Amount(u.days * digit, u.seconds * digit,
                               u.microseconds * digit, 0), exp))
Times(num, unit) ==
    IF num.neg THEN Negate(DigitsTimes(num.digits, num.exp, unit))
    ELSE DigitsTimes(num.digits, num.exp, unit)
\* the exact sum, rounded to the microsecond, a half to the even one
Rounded(sum) ==
    LET up == \/ sum.frac > 50000000
              \/ sum.frac = 50000000 /\ sum.microseconds % 2 = 1
        rounded == IF sum.overflow THEN sum
                   ELSE Amount(sum.days, sum.seconds,
                               sum.microseconds + (IF up THEN 1 ELSE 0), 0)
    IN  IF rounded.overflow THEN Raise("OverflowError")
        ELSE Value(PyTimedelta(rounded.days, rounded.seconds, rounded.microseconds))
RECURSIVE SumOfTokens(_, _)
SumOfTokens(s, starts) ==
    IF starts = {} THEN Amount(0, 0, 0, 0)
    ELSE LET i == CHOOSE i \in starts : TRUE
         IN  Plus(Times(DecimalOfToken(TokenNumber(s, i)), Keyword(TokenUnit(s, i))),
                  SumOfTokens(s, starts \ {i}))
\* the keyword arguments that the tokens of s make: the float of the number
\* for the unit of each token, the int 0 for a unit that no token has
KwargsOfTokens(s) ==
    [unit \in {TimedeltaUnits[n] : n \in 1..Len(TimedeltaUnits)} |->
        IF \E i \in TokenStarts(s) : Keyword(TokenUnit(s, i)) = unit
        THEN float(TokenNumber(s, CHOOSE i \in TokenStarts(s) :
                                        Keyword(TokenUnit(s, i)) = unit))
        ELSE PyZero]
\* the places between two tokens of s: after the unit of the one, before the
\* number of the other, with only blanks and commas from the one to the
\* other; the places where no comma is between the two yet
Separates(s, i, Separator(_)) ==
    \E p \in 1..i, q \in (i + 1)..Len(s) :
        /\ IsUnitChar(s[p])
        /\ IsNumberChar(s[q])
        /\ \A k \in (p + 1)..(q - 1) : Separator(s[k])
IsSeparator(char) == IsBlank(char) \/ char = COMMA
Gaps(s) == {i \in 1..(Len(s) - 1) : Separates(s, i, IsSeparator)}
CommaFreeGaps(s) == {i \in 1..(Len(s) - 1) : Separates(s, i, IsBlank)}
Insert(s, i, c) == SubSeq(s, 1, i) \o <<c>> \o SubSeq(s, i + 1, Len(s))
Done == td.pc = "done"
CannotParse(r) == ~r.ok /\ r.error = "CannotParse"

\* C31: the timedelta of an accepted duration string is the sum, over its
\* tokens, of the number times the length of the unit: it is what
\* datetime.timedelta makes of the floats of the numbers under the keywords
\* of their units, and for the numbers of these strings, which a float holds
\* to well below the microsecond, that is the exact sum of the decimals
\* rounded to the microsecond; and a space or a tab put between two tokens,
\* or a comma put between two tokens that only blanks separate, leaves it as
\* it is.
C31_SumOfTokens ==
    (Done /\ td.result.ok) =>
        /\ td.result = datetime_timedelta(KwargsOfTokens(td.s))
        /\ td.result = Rounded(SumOfTokens(td.s, TokenStarts(td.s)))
        /\ \A i \in Gaps(td.s), c \in {SP, TAB} :
                timedelta(Insert(td.s, i, c)) = td.result
        /\ \A i \in CommaFreeGaps(td.s) :
                timedelta(Insert(td.s, i, COMMA)) = td.result

\* "1h,2m" gave 62 minutes
C31_Witness ==
    /\ Done
    /\ td.s = <<DIGIT_0 + 1, LOWER_H, COMMA, DIGIT_0 + 2, LOWER_M>>
    /\ td.result = Value(PyTimedelta(0, 3720, 0))

\* the units of the tokens of s are units and get smaller from each token
\* to the next
UnitsDecrease(s) ==
    /\ \A i \in TokenStarts(s) : Magnitude(TokenUnit(s, i)) > 0
    /\ \A i, j \in TokenStarts(s) :
            i < j => Magnitude(TokenUnit(s, i)) > Magnitude(TokenUnit(s, j))
AllBlank(s) == \A i \in 1..Len(s) : IsBlank(s[i])

\* C32: a duration string is accepted only if the units of its tokens are
\* units and get smaller from each token to the next; a string whose tokens
\* have a unit out of order, a unit twice or an unknown unit, and the empty
\* or blank string, fail with CannotParse.
C32_UnitOrder ==
    Done =>
        /\ td.result.ok => UnitsDecrease(td.s)
        /\ (~UnitsDecrease(td.s) \/ AllBlank(td.s)) => CannotParse(td.result)

\* "2m1h", "1h1h", "1hm" and " " failed with CannotParse
C32_WitnessOrder ==
    /\ Done
    /\ td.s = <<DIGIT_0 + 2, LOWER_M, DIGIT_0 + 1, LOWER_H>>
    /\ CannotParse(td.result)

\* C33 as it is stated: a duration string with a dangling number fails
\* with CannotParse.
C33_DanglingNumber ==
    (Done /\ DanglingNumbers(td.s) # {}) => CannotParse(td.result)

\* the nearest character of s before and after place i that is no blank,
\* 0 where there is none
Before(s, i) ==
    LET left == {j \in 1..(i - 1) : ~IsBlank(s[j])}
    IN  IF left = {} THEN 0 ELSE s[MaxOf(left)]
After(s, i) ==
    LET right == {j \in (i + 1)..Len(s) : ~IsBlank(s[j])}
    IN  IF right = {} THEN 0 ELSE s[CHOOSE j \in right : \A k \in right : j <= k]
\* the commas of s that are not alone between two tokens
DanglingCommas(s) ==
    {i \in 1..Len(s) :
        /\ s[i] = COMMA
        /\ ~(IsUnitChar(Before(s, i)) /\ IsNumberChar(After(s, i)))}

\* C34 as it is stated: a duration string with a comma before the first
\* token, after the last token or next to another comma fails with
\* CannotParse.
C34_DanglingSeparator ==
    (Done /\ DanglingCommas(td.s) # {}) => CannotParse(td.result)

\* the place of a call of parse.timedelta in its outer loop, counted so
\* that a step that takes no character lowers it: the number loop and the
\* unit loop with an empty token can only take a character or raise
Place(f) ==
    CASE f.pc = "done" -> 0
      [] f.pc = "tokens" -> 1
      [] f.pc = "number" -> IF f.token_chars = <<>> THEN 2 ELSE 3
      [] f.pc = "unit" -> IF f.token_chars = <<>> THEN 2 ELSE 6
      [] f.pc = "leading" -> 3
      [] f.pc = "comma" -> 4
      [] f.pc = "trailing" -> 5
      [] f.pc = "call" -> 7
      [] OTHER -> 0
Taken(f) == IF f.pc = "idle" \/ f.pc = "call" THEN 0 ELSE f.chars

\* the place of the generator between two characters, counted so that a
\* step that takes no character raises it: behind a yield of the loop it
\* goes to the top of the loop, from the top of the loop to the yield after
\* the loop or to its end
GeneratorPlace ==
    IF result # "running" THEN 3
    ELSE IF pc = "last yield" THEN 2
    ELSE IF pc = "yield" THEN 0
    ELSE 1

\* C40: a run of the generator that is iterated to its end ends, and a call
\* of parse.timedelta leaves its outer loop, with the tokens or with an
\* error: every step of the generator takes a character, or ends the run,
\* or goes on from the yield of the character it took, or yields after the
\* loop; every step of
\* parse.timedelta takes a character, ends the loop or moves on in it, where
\* it moves on from the number and from the unit only after it took a
\* character for them.
C40_Terminates ==
    /\ (result = "running") ~> (result # "running")
    /\ (td.pc \notin {"idle", "call", "done"}) ~> (td.pc \in {"tokens", "done"})
    /\ [][parse_vars' # parse_vars =>
            \/ Len(chars') = Len(chars) + 1
            \/ chars' = chars /\ GeneratorPlace' > GeneratorPlace]_all_vars
    /\ [][td' # td =>
            \/ Taken(td') = Taken(td) + 1
            \/ Taken(td') = Taken(td) /\ Place(td') < Place(td)]_all_vars

\* the call for "1h,2m" took all five characters and left the loop with the
\* four tokens; a run of the generator over four characters returned
\* after one variable
C40_Witness ==
    \/ /\ Done
       /\ td.s = <<DIGIT_0 + 1, LOWER_H, COMMA, DIGIT_0 + 2, LOWER_M>>
       /\ Taken(td) = Len(td.s)
       /\ Len(td.tokens) = 4
    \/ /\ result = "returned"
       /\ Len(chars) = MaxTerminatesLen
       /\ Len(vars) = 1

\* C35 as it is stated: a run of the generator on text that ends right
\* after a backslash inside a quoted value or a quoted name ends with
\* CannotParse, and no run ends with another error than CannotParse.
C35_EscapeAtEndCannotParse ==
    /\ [][(EndStep /\ pc = "escape") =>
            /\ state \in QuotedStates
            /\ result' = "CannotParse"]_all_vars
    /\ [](result \in {"idle", "running", "returned", "CannotParse"})

\* the variables of the input that resolve to field i, by their place in
\* the input, and the conversion of the variable at place k for field i
VarsOf(i) ==
    {k \in 1..Len(seen) : find_spec_idx_for_var_name(var_specs, seen[k].name) = i}
ConvertedFor(i, k) ==
    _choose_validator_and_converter(
        var_specs[i], var_specs[i].dataclass_field_type,
        _custom_validators_and_converters_specs, seen[k])

\* C36: during a call no resolved flag goes from true back to false, and
\* when the call returns, a field to which variables of the input resolve
\* holds the value converted from the last of them in input order.
C36_LastWriteWins ==
    /\ [][/\ DOMAIN _resolved' = DOMAIN _resolved
          /\ \A i \in DOMAIN _resolved : _resolved[i] => _resolved'[i]]_all_vars
    /\ [](outcome.kind = "returned" =>
            \A i \in 1..Len(var_specs) :
                VarsOf(i) # {} =>
                    /\ _resolved[i]
                    /\ ConvertedFor(i, MaxOf(VarsOf(i))).ok
                    /\ outcome.record[var_specs[i].dataclass_field_name]
                         = ConvertedFor(i, MaxOf(VarsOf(i))).value)

\* two variables resolved to field 1 and converted to different values;
\* the record holds the second
C36_Witness ==
    /\ outcome.kind = "returned"
    /\ VarsOf(1) = {1, 2}
    /\ ConvertedFor(1, 1).ok
    /\ ConvertedFor(1, 1).value # ConvertedFor(1, 2).value
    /\ outcome.record[var_specs[1].dataclass_field_name] = ConvertedFor(1, 2).value

\* the validators that always pass: one returns True, one returns None
PassingValidators == {"accept", "nothing"}
\* the field has validators and all of them always pass
OnlyPassing(spec) ==
    /\ spec.custom_validate # NoValidate
    /\ \A k \in 1..Len(spec.custom_validate) :
            spec.custom_validate[k] \in PassingValidators
\* the field specs as they were before the validators were attached
WithoutValidators(specs) ==
    [i \in 1..Len(specs) |-> [specs[i] EXCEPT !.custom_validate = NoValidate]]

\* C37 as it is stated: for a field whose validators all pass, whatever
\* its type and its configuration, the step of from_chars_iter on a
\* variable ends as it ends without the validators.
C37_PassingValidatorChangesNothing ==
    [][(VarStep /\ OnlyPassing(var_specs[1])) =>
            Current' = HandleVar(WithoutValidators(var_specs),
                                 _custom_validators_and_converters_specs,
                                 allow_incomplete, Current, StepVar)]_all_vars

\* the kinds of outcome: the errors of the generator, the outcomes of the
\* code after the loop, and the errors of the loop body
ParserErrors == {"CannotParse", "RuntimeError"}
AfterLoopKinds == {"returned", "VariableMissing", "TypeError"}
RaisedAtVar == outcome.kind \notin ParserErrors \cup AfterLoopKinds \cup {"running"}
\* the loop of from_chars_iter on the first n variables that were handled
HandledUpTo(n) ==
    RunVars(var_specs, allow_incomplete, StartOfCall(var_specs), SubSeq(seen, 1, n))

\* C38: the generator reads a character, goes on behind a yield, ends or
\* raises only when the loop
\* has handled every Var it yielded; an error of the loop body is raised
\* at the last Var that was yielded, after the Vars before it were handled
\* without error and while the generator has raised nothing; an error of
\* the generator leaves the call only after every Var that was yielded was
\* handled without error; VariableMissing is raised only after the
\* generator has returned and every Var was handled without error.
C38_FirstFailureInInputOrder ==
    /\ [][((chars' # chars \/ result' # result \/ pc' # pc) /\ ~NewCallStep) =>
            (outcome = Running /\ seen = vars)]_all_vars
    /\ [](RaisedAtVar =>
            /\ result \notin ParserErrors
            /\ seen = vars
            /\ HandledUpTo(Len(seen) - 1).outcome = Running
            /\ HandledUpTo(Len(seen)).outcome = outcome)
    /\ [](outcome.kind \in ParserErrors =>
            /\ result = outcome.kind
            /\ seen = vars
            /\ HandledUpTo(Len(seen)).outcome = Running)
    /\ [](outcome.kind = "VariableMissing" =>
            /\ result = "returned"
            /\ seen = vars
            /\ HandledUpTo(Len(seen)).outcome = Running)

\* A=A failed to convert to int when the line feed was read, while the
\* generator was suspended at the yield; a CannotParse left the call after
\* a Var was handled
C38_WitnessConversion ==
    /\ outcome.kind = "CannotConvertToType"
    /\ result = "running"
    /\ pc = "yield"
    /\ chars = <<65, 61, 65, 10>>
    /\ Len(seen) = 1

\* the states in which the name is read
NameStates ==
    {_DOTENV_STATE_IN_UNQUOTED_NAME, _DOTENV_STATE_IN_QUOTED_NAME,
     _DOTENV_STATE_AFTER_NAME}

\* C39: in every state of the generator, at every next(chars) and at every
\* yield, before a name and in a comment both accumulators are empty, and
\* in a name state and before a value the value accumulator is empty; a Var
\* is yielded from the accumulators, and when the generator goes on in the
\* loop behind the yield both accumulators are empty.
C39_AccumulatorsEmpty ==
    /\ [](state \in {_DOTENV_STATE_BEFORE_NAME, _DOTENV_STATE_IN_COMMENT} =>
            (name_chars = <<>> /\ val_chars = <<>>))
    /\ [](state \in NameStates \cup {_DOTENV_STATE_BEFORE_VAL} => val_chars = <<>>)
    /\ [][YieldStep =>
            /\ Yielded.name = name_chars
            /\ Yielded.value \in {None, Str(val_chars)}]_all_vars
    /\ [][(ResumeStep /\ pc = "yield") =>
            /\ name_chars' = <<>>
            /\ val_chars' = <<>>
            /\ state' \in {_DOTENV_STATE_BEFORE_NAME, _DOTENV_STATE_IN_COMMENT}]_all_vars

\* after A=1 and a line feed the Var was yielded, the generator went on
\* behind the yield and is before the next name with both accumulators
\* empty
C39_Witness ==
    /\ chars = <<65, 61, DIGIT_0 + 1, LF>>
    /\ vars = <<Var(<<65>>, Str(<<DIGIT_0 + 1>>))>>
    /\ pc = "loop"
    /\ state = _DOTENV_STATE_BEFORE_NAME
    /\ name_chars = <<>>
    /\ val_chars = <<>>
====
